---- MODULE Spec2Model ----
(***************************************************************************)
(* Model of the typed resource-client layer of parcel-clients: the App     *)
(* resource object and the AppImpl collection functions (app.ts), driven   *)
(* against an HTTP transport whose answers are chosen by the gateway.      *)
(*                                                                         *)
(* JavaScript values are tagged records of one shape so that any two of    *)
(* them can be compared: t is the type tag, s the string payload, n the    *)
(* numeric payload and l the array payload.                                *)
(***************************************************************************)
EXTENDS FiniteSets, Integers, Sequences, TLC

VARIABLES heap, calls, nCalls, last, download, sink, upload, gateway, pager,
          codec, job

\* The state of the resource operations and the state of the streams.
resources == <<heap, calls, nCalls, last>>
streams == <<download, sink, upload>>

\* The state of the filter translation and of the example's compute job.
examples == <<codec, job>>

vars ==
    <<heap, calls, nCalls, last, download, sink, upload, gateway, pager,
      codec, job>>

(* ---------------------------- bounds ----------------------------------- *)
MaxCalls == 2
MaxObjs == 3
MaxPage == 2
MaxInFlight == 1
MaxTags == 2
MaxChunks == 2
MaxRequests == 5
MaxHeap == 4
MaxItems == 3
MaxRacing == 2
MaxPolls == 3

(* ------------------------- JavaScript values --------------------------- *)
Undefined == [t |-> "undefined", s |-> "", n |-> 0, l |-> <<>>]
Str(x) == [t |-> "string", s |-> x, n |-> 0, l |-> <<>>]
Bool(b) == [t |-> "boolean", s |-> IF b THEN "true" ELSE "false", n |-> 0, l |-> <<>>]
Num(k) == [t |-> "number", s |-> "", n |-> k, l |-> <<>>]
Arr(xs) == [t |-> "array", s |-> "", n |-> 0, l |-> xs]
DateVal(ms) == [t |-> "Date", s |-> "", n |-> ms, l |-> <<>>]
ClientRef(c) == [t |-> "HttpClient", s |-> c, n |-> 0, l |-> <<>>]
\* An object with the single property key holding the array xs.
Matcher(key, xs) == [t |-> "object", s |-> key, n |-> 0, l |-> xs]

\* The instant "Invalid Date" stands for (new Date of an unparsable value).
NaN == -1

\* new Date(string): the instant an ISO-8601 timestamp denotes.  Two
\* spellings of the same instant parse to the same time value.
DateParse(str) ==
    CASE str = "2021-03-04T05:06:07.000Z" -> 1
      [] str = "2021-03-04T05:06:07Z" -> 1
      [] str = "2022-01-01T00:00:00.000Z" -> 2
      [] OTHER -> NaN

\* new Date(v) for a wire value v.
NewDate(v) == IF v.t = "string" THEN DateVal(DateParse(v.s)) ELSE DateVal(NaN)

\* pod.f: reading a property of a plain object; an absent property reads
\* as undefined.
Get(pod, f) == IF f \in DOMAIN pod THEN pod[f] ELSE Undefined

(* ------------------------------ PODApp --------------------------------- *)
\* The id handed to the by-id functions.
AppIds == {"a1"}
Clients == {"http1", "http2"}

\* The properties an App object carries besides its transport.
AppFields ==
    {"acceptanceText", "admins", "allowUserUploads", "brandingColor", "category",
     "collaborators", "createdAt", "owner", "extendedDescription", "homepageUrl",
     "id", "invites", "invitationText", "inviteOnly", "name", "organization",
     "participants", "privacyPolicy", "published", "rejectionText",
     "shortDescription", "termsAndConditions", "logoUrl", "trusted"}

\* The optional properties of the wire shape.
OptionalPodFields ==
    {"acceptanceText", "brandingColor", "category", "extendedDescription",
     "invitationText", "invites", "rejectionText"}

\* A fully populated snapshot as the gateway sends it.
FullPod(id, published, name, createdAt) ==
    [id |-> Str(id),
     createdAt |-> Str(createdAt),
     acceptanceText |-> Str("thanks for the data!"),
     admins |-> Arr(<<"i1">>),
     allowUserUploads |-> Bool(FALSE),
     brandingColor |-> Str("#abcdef"),
     category |-> Str("testing"),
     collaborators |-> Arr(<<"i2", "i3">>),
     extendedDescription |-> Str("looooong description"),
     homepageUrl |-> Str("https://friendly.app"),
     invitationText |-> Str("plz give data"),
     inviteOnly |-> Bool(TRUE),
     invites |-> Arr(<<"i4">>),
     logoUrl |-> Str("https://friendly.app/logo"),
     name |-> Str(name),
     organization |-> Str("Oasis Labs"),
     owner |-> Str("i1"),
     participants |-> Arr(<<>>),
     published |-> Bool(published),
     rejectionText |-> Str(":("),
     shortDescription |-> Str("shrt dscrptn"),
     termsAndConditions |-> Str("https://friendly.app/terms"),
     privacyPolicy |-> Str("https://friendly.app/privacy"),
     trusted |-> Bool(FALSE)]

\* The snapshot pod without the properties in drop (they are absent, not null).
Without(pod, drop) == [f \in (DOMAIN pod) \ drop |-> pod[f]]

\* The snapshots the gateway answers with: a fresh unpublished app, the same
\* app published and renamed with its optional texts omitted, and another app.
PODApps ==
    {FullPod("a1", FALSE, "test app", "2021-03-04T05:06:07.000Z"),
     Without(FullPod("a1", TRUE, "new name", "2021-03-04T05:06:07Z"),
             {"category", "invites", "rejectionText"}),
     Without(FullPod("a2", FALSE, "other app", "2022-01-01T00:00:00.000Z"),
             {"acceptanceText"})}

\* The snapshots a listing is made of: two different apps.
ListedApps == {p \in PODApps : p.published = Bool(FALSE)}

(* ---------------------------- class App -------------------------------- *)
\* new App(client, pod)
App(client, pod) ==
    [client |-> ClientRef(client),
     acceptanceText |-> Get(pod, "acceptanceText"),
     admins |-> Get(pod, "admins"),
     allowUserUploads |-> Get(pod, "allowUserUploads"),
     brandingColor |-> Get(pod, "brandingColor"),
     category |-> Get(pod, "category"),
     collaborators |-> Get(pod, "collaborators"),
     createdAt |-> NewDate(Get(pod, "createdAt")),
     owner |-> Get(pod, "owner"),
     extendedDescription |-> Get(pod, "extendedDescription"),
     homepageUrl |-> Get(pod, "homepageUrl"),
     id |-> Get(pod, "id"),
     invites |-> Get(pod, "invites"),
     invitationText |-> Get(pod, "invitationText"),
     inviteOnly |-> Get(pod, "inviteOnly"),
     name |-> Get(pod, "name"),
     organization |-> Get(pod, "organization"),
     participants |-> Get(pod, "participants"),
     privacyPolicy |-> Get(pod, "privacyPolicy"),
     published |-> Get(pod, "published"),
     rejectionText |-> Get(pod, "rejectionText"),
     shortDescription |-> Get(pod, "shortDescription"),
     termsAndConditions |-> Get(pod, "termsAndConditions"),
     logoUrl |-> Get(pod, "logoUrl"),
     trusted |-> Get(pod, "trusted")]

(* --------------------------- endpoints --------------------------------- *)
\* `${v}`: the text a template literal inserts for a value.
TemplateText(v) == IF v.t = "string" THEN v.s ELSE "undefined"

APPS_EP == "apps"

endpointForId(id) == APPS_EP \o "/" \o TemplateText(id)

\* Consents are nested under their app: apps/{app-id}/consents[/{consent-id}].
endpointForCollection(appId) == endpointForId(appId) \o "/consents"

endpointForConsent(appId, consentId) ==
    endpointForCollection(appId) \o "/" \o TemplateText(consentId)

(* ------------------------- query translation --------------------------- *)
\* Property names and query keys are sequences of one-character strings.
UpperChars ==
    <<"A", "B", "C", "D", "E", "F", "G", "H", "I", "J", "K", "L", "M",
      "N", "O", "P", "Q", "R", "S", "T", "U", "V", "W", "X", "Y", "Z">>

LowerChars ==
    <<"a", "b", "c", "d", "e", "f", "g", "h", "i", "j", "k", "l", "m",
      "n", "o", "p", "q", "r", "s", "t", "u", "v", "w", "x", "y", "z">>

IsUpper(c) == \E i \in 1..Len(UpperChars) : UpperChars[i] = c

ToLower(c) ==
    IF IsUpper(c)
    THEN LowerChars[CHOOSE i \in 1..Len(UpperChars) : UpperChars[i] = c]
    ELSE c

\* paramCase(key): a hyphen goes between a lower-case character and the
\* upper-case character that follows it, and every character is lower-cased.
RECURSIVE paramCaseFrom(_, _)
paramCaseFrom(key, i) ==
    IF i > Len(key) THEN <<>>
    ELSE (IF i > 1 /\ IsUpper(key[i]) /\ ~IsUpper(key[i - 1])
          THEN <<"-", ToLower(key[i])>>
          ELSE <<ToLower(key[i])>>) \o paramCaseFrom(key, i + 1)

paramCase(key) == paramCaseFrom(key, 1)

\* String(n) for the page sizes in use.
NumberText(k) ==
    CASE k = 0 -> "0" [] k = 1 -> "1" [] k = 2 -> "2" [] k = 3 -> "3"
      [] OTHER -> "NaN"

\* The string form of a scalar filter value.
ScalarText(v) ==
    CASE v.t = "string" -> v.s
      [] v.t = "number" -> NumberText(v.n)
      [] v.t = "boolean" -> v.s
      [] v.t = "object" -> "[object Object]"
      [] OTHER -> "undefined"

\* A filter is the sequence of its [key, value] entries; the query is the
\* sequence of [name, text] parameters sent.
RECURSIVE toQuery(_)
toQuery(filter) ==
    IF filter = <<>> THEN <<>>
    ELSE <<<<paramCase(filter[1][1]), ScalarText(filter[1][2])>>>>
         \o toQuery(Tail(filter))

K_owner == <<"o", "w", "n", "e", "r">>
K_participation == <<"p", "a", "r", "t", "i", "c", "i", "p", "a", "t", "i", "o", "n">>
K_pageSize == <<"p", "a", "g", "e", "S", "i", "z", "e">>
K_nextPageToken ==
    <<"n", "e", "x", "t", "P", "a", "g", "e", "T", "o", "k", "e", "n">>

\* The filters handed to AppImpl.list; the empty one stands for no filter.
AppFilters ==
    {<<>>,
     <<<<K_owner, Str("i1")>>, <<K_participation, Str("invited")>>,
       <<K_pageSize, Num(2)>>, <<K_nextPageToken, Str("tok1")>>>>}

(* ---------------------------- transport -------------------------------- *)
Statuses == {200, 204, 404, 500}

NoBody == [nobody |-> Undefined]
NoError == [name |-> "", status |-> 0]

\* The one status each verb accepts as success.
Expected(method) ==
    CASE method = "POST" -> 201
      [] method = "GET" -> 200
      [] method = "PUT" -> 200
      [] method = "DELETE" -> 204

\* The error raised for an answer whose status is not the expected one.
ErrorFor(status) ==
    [name |-> IF status >= 200 /\ status < 300 THEN "ContractViolation"
              ELSE "RequestError",
     status |-> status]

\* How the transport settles a request of the given verb on response resp:
\* the parsed body on the expected status (nothing for DELETE), an error
\* carrying the status otherwise.
HttpSettle(method, resp) ==
    IF resp.status = Expected(method)
    THEN [ok |-> TRUE,
          body |-> IF method = "DELETE" THEN NoBody ELSE resp.body,
          error |-> NoError]
    ELSE [ok |-> FALSE, body |-> NoBody, error |-> ErrorFor(resp.status)]

(* ------------------------ gateway answers ------------------------------ *)
ConsentIds == {"c1", "c2"}

PODConsents ==
    {[id |-> Str("c1"), createdAt |-> Str("2021-03-04T05:06:07.000Z"),
      appId |-> Str("a1"), name |-> Str("Consent Name")]}

Tokens == {"tok1"}

SeqsUpTo(S, k) == UNION {[1..m -> S] : m \in 0..k}

\* A results page on the wire: the cursor is a property that may be absent.
PagesOf(S) ==
    {[results |-> r] : r \in SeqsUpTo(S, MaxPage)}
    \cup {[results |-> r, nextPageToken |-> Str(tk)] :
            r \in SeqsUpTo(S, MaxPage), tk \in Tokens}

\* The status the gateway's REST contract documents for a served request.
Documented(method) ==
    CASE method = "POST" -> 201
      [] method = "GET" -> 200
      [] method = "PUT" -> 200
      [] method = "DELETE" -> 204

\* What may come back for a request: the documented status with one of the
\* bodies, or another status without a body.
Answers(method, bodies) ==
    {[status |-> Documented(method), body |-> b] : b \in bodies}
    \cup {[status |-> st, body |-> NoBody] : st \in Statuses \ {Documented(method)}}

\* A DELETE is answered without a body, or by a gateway that answers 200
\* with the deleted resource.
DeleteAnswers ==
    {[status |-> st, body |-> NoBody] : st \in Statuses}
    \cup {[status |-> 200, body |-> CHOOSE b \in PODApps : b.id = Str("a2")]}

(* ------------------------- call arguments ------------------------------ *)
AppCreateParamsSet ==
    {[name |-> Str("my app"), published |-> Bool(TRUE),
      identityTokenVerifiers |-> Arr(<<"v1">>)]}

AppUpdateParamsSet ==
    {[published |-> Bool(TRUE)],
     [name |-> Str("my name"), category |-> Str("updated category")]}

ConsentCreateParamsSet == {[name |-> Str("Consent Name")]}

(* -------------------------- promise outcomes --------------------------- *)
\* ref is the App a promise resolved to, results the Apps of a resolved
\* page, values the resource objects of another kind it resolved to.
NoOut ==
    [state |-> "none", kind |-> "none", ref |-> 0, results |-> <<>>,
     nextPageToken |-> Undefined, values |-> <<>>, error |-> NoError]

Rejected(err) == [NoOut EXCEPT !.state = "rejected", !.kind = "error", !.error = err]
ResolvedVoid == [NoOut EXCEPT !.state = "resolved", !.kind = "void"]
ResolvedApp(ref) == [NoOut EXCEPT !.state = "resolved", !.kind = "App", !.ref = ref]

ResolvedPage(refs, token) ==
    [NoOut EXCEPT !.state = "resolved", !.kind = "Page<App>", !.results = refs,
                  !.nextPageToken = token]

ResolvedValue(kind, v) ==
    [NoOut EXCEPT !.state = "resolved", !.kind = kind, !.values = <<v>>]

ResolvedValuePage(kind, vs, token) ==
    [NoOut EXCEPT !.state = "resolved", !.kind = kind, !.values = vs,
                  !.nextPageToken = token]

(* ------------------------------- calls --------------------------------- *)
\* The arguments of an operation and the request it hands to the transport.
NoArgs == [id |-> Undefined, params |-> NoBody, filter |-> <<>>, consentId |-> Undefined]
NoReq == [method |-> "", endpoint |-> "", query |-> <<>>, body |-> NoBody]

Req(method, endpoint, query, body) ==
    [method |-> method, endpoint |-> endpoint, query |-> query, body |-> body]

NoCall == [cid |-> 0, op |-> "none", self |-> 0, client |-> "", args |-> NoArgs, req |-> NoReq]

NoAnswer == [status |-> 0, body |-> NoBody]

\* An assignment that skips the properties of source holding undefined.
ObjectAssign_defined(target, source) ==
    [f \in (DOMAIN target) \cup (DOMAIN source) |->
        IF f \in DOMAIN source /\ (f \notin DOMAIN target \/ source[f] # Undefined)
        THEN source[f] ELSE target[f]]

\* Object.assign(target, source): every own property of source is written
\* onto target, properties holding undefined included.
ObjectAssign(target, source) ==
    [f \in (DOMAIN target) \cup (DOMAIN source) |->
        IF f \in DOMAIN source THEN source[f] ELSE target[f]]

(* ------------------------- namespace AppImpl --------------------------- *)
\* Each function is modelled in two parts: the request it hands to the
\* transport, and its continuation, which maps the heap h, the call c and
\* the way tr the transport settled the request to the new heap and the
\* outcome of the returned promise.

\* client.create<PODApp>(APPS_EP, params)
AppImpl_create_req(params) == Req("POST", APPS_EP, <<>>, params)

\* A create that builds the App from the response overlaid with the params.
AppImpl_create_merged(h, c, tr) ==
    IF tr.ok
    THEN [heap |-> Append(h, App(c.client, ObjectAssign(tr.body, c.args.params))),
          out |-> ResolvedApp(Len(h) + 1)]
    ELSE [heap |-> h, out |-> Rejected(tr.error)]

\* A create that builds the App on one transport kept for all calls.
AppImpl_create_ownTransport(h, c, tr) ==
    IF tr.ok
    THEN [heap |-> Append(h, App("http1", tr.body)), out |-> ResolvedApp(Len(h) + 1)]
    ELSE [heap |-> h, out |-> Rejected(tr.error)]

\* .then((podApp) => new App(client, podApp))
AppImpl_create(h, c, tr) ==
    IF tr.ok
    THEN [heap |-> Append(h, App(c.client, tr.body)), out |-> ResolvedApp(Len(h) + 1)]
    ELSE [heap |-> h, out |-> Rejected(tr.error)]

\* client.get<PODApp>(endpointForId(id))
AppImpl_get_req(id) == Req("GET", endpointForId(id), <<>>, NoBody)

\* A get that answers a failed request with an empty App.
AppImpl_get_fallback(h, c, tr) ==
    [heap |-> Append(h, App(c.client, tr.body)), out |-> ResolvedApp(Len(h) + 1)]

\* A get that also refreshes the Apps already built for the same id.
AppImpl_get_refreshing(h, c, tr) ==
    IF tr.ok
    THEN [heap |-> Append([o \in 1..Len(h) |->
                              IF h[o].id = Get(tr.body, "id")
                              THEN App(h[o].client.s, tr.body) ELSE h[o]],
                          App(c.client, tr.body)),
          out |-> ResolvedApp(Len(h) + 1)]
    ELSE [heap |-> h, out |-> Rejected(tr.error)]

\* .then((podApp) => new App(client, podApp))
AppImpl_get(h, c, tr) ==
    IF tr.ok
    THEN [heap |-> Append(h, App(c.client, tr.body)), out |-> ResolvedApp(Len(h) + 1)]
    ELSE [heap |-> h, out |-> Rejected(tr.error)]

\* A list request that leaves the filter behind.
AppImpl_list_req_bare(filter) == Req("GET", APPS_EP, <<>>, NoBody)

\* client.get<Page<PODApp>>(APPS_EP, filter)
AppImpl_list_req(filter) == Req("GET", APPS_EP, toQuery(filter), NoBody)

\* A list that builds the page back to front.
AppImpl_list_reversed(h, c, tr) ==
    IF tr.ok
    THEN LET podPage == tr.body
             k == Len(podPage.results)
         IN [heap |-> h \o [i \in 1..k |-> App(c.client, podPage.results[k + 1 - i])],
             out |-> ResolvedPage([i \in 1..k |-> Len(h) + i],
                                  Get(podPage, "nextPageToken"))]
    ELSE [heap |-> h, out |-> Rejected(tr.error)]

\* A list that reports no cursor for a page without results.
AppImpl_list_emptyEnds(h, c, tr) ==
    IF tr.ok
    THEN LET podPage == tr.body
             k == Len(podPage.results)
         IN [heap |-> h \o [i \in 1..k |-> App(c.client, podPage.results[i])],
             out |-> ResolvedPage([i \in 1..k |-> Len(h) + i],
                                  IF k = 0 THEN Undefined
                                  ELSE Get(podPage, "nextPageToken"))]
    ELSE [heap |-> h, out |-> Rejected(tr.error)]

\* A list that makes the cursor itself, from the number of objects built.
AppImpl_list_ownCursor(h, c, tr) ==
    IF tr.ok
    THEN LET podPage == tr.body
             k == Len(podPage.results)
         IN [heap |-> h \o [i \in 1..k |-> App(c.client, podPage.results[i])],
             out |-> ResolvedPage([i \in 1..k |-> Len(h) + i],
                                  IF Get(podPage, "nextPageToken") = Undefined
                                  THEN Undefined ELSE Str(NumberText(Len(h) + k)))]
    ELSE [heap |-> h, out |-> Rejected(tr.error)]

\* podPage.results.map((podApp) => new App(client, podApp)) and the cursor
AppImpl_list(h, c, tr) ==
    IF tr.ok
    THEN LET podPage == tr.body
             k == Len(podPage.results)
         IN [heap |-> h \o [i \in 1..k |-> App(c.client, podPage.results[i])],
             out |-> ResolvedPage([i \in 1..k |-> Len(h) + i],
                                  Get(podPage, "nextPageToken"))]
    ELSE [heap |-> h, out |-> Rejected(tr.error)]

\* An update that sends no fields.
AppImpl_update_req_empty(id, params) == Req("PUT", endpointForId(id), <<>>, NoBody)

\* client.update<PODApp>(endpointForId(id), params)
AppImpl_update_req(id, params) == Req("PUT", endpointForId(id), <<>>, params)

\* An update that replaces the transport's error by one of its own.
AppImpl_update_wrapped(h, c, tr) ==
    IF tr.ok
    THEN [heap |-> Append(h, App(c.client, tr.body)), out |-> ResolvedApp(Len(h) + 1)]
    ELSE [heap |-> h, out |-> Rejected([name |-> "Error", status |-> 0])]

\* .then((podApp) => new App(client, podApp))
AppImpl_update(h, c, tr) ==
    IF tr.ok
    THEN [heap |-> Append(h, App(c.client, tr.body)), out |-> ResolvedApp(Len(h) + 1)]
    ELSE [heap |-> h, out |-> Rejected(tr.error)]

\* A delete that addresses the collection instead of the item.
AppImpl_delete__req_collection(id) == Req("DELETE", APPS_EP, <<>>, NoBody)

\* client.delete(endpointForId(id))
AppImpl_delete__req(id) == Req("DELETE", endpointForId(id), <<>>, NoBody)

\* A delete_ that drops the transport's promise instead of returning it.
AppImpl_delete__dropped(h, c, tr) == [heap |-> h, out |-> ResolvedVoid]

\* return client.delete(...)
AppImpl_delete_(h, c, tr) ==
    IF tr.ok
    THEN [heap |-> h, out |-> ResolvedVoid]
    ELSE [heap |-> h, out |-> Rejected(tr.error)]

(* ------------------------ namespace ConsentImpl ------------------------ *)
\* new Consent(client, pod)
Consent(client, pod) ==
    [client |-> ClientRef(client),
     id |-> Get(pod, "id"),
     createdAt |-> NewDate(Get(pod, "createdAt")),
     appId |-> Get(pod, "appId"),
     name |-> Get(pod, "name")]

ConsentImpl_create_req(appId, params) ==
    Req("POST", endpointForCollection(appId), <<>>, params)

ConsentImpl_create(h, c, tr) ==
    IF tr.ok
    THEN [heap |-> h, out |-> ResolvedValue("Consent", Consent(c.client, tr.body))]
    ELSE [heap |-> h, out |-> Rejected(tr.error)]

ConsentImpl_list_req(appId) == Req("GET", endpointForCollection(appId), <<>>, NoBody)

ConsentImpl_list(h, c, tr) ==
    IF tr.ok
    THEN LET podPage == tr.body
         IN [heap |-> h,
             out |-> ResolvedValuePage("Page<Consent>",
                 [i \in 1..Len(podPage.results) |-> Consent(c.client, podPage.results[i])],
                 Get(podPage, "nextPageToken"))]
    ELSE [heap |-> h, out |-> Rejected(tr.error)]

ConsentImpl_delete__req(appId, consentId) ==
    Req("DELETE", endpointForConsent(appId, consentId), <<>>, NoBody)

ConsentImpl_delete_(h, c, tr) ==
    IF tr.ok
    THEN [heap |-> h, out |-> ResolvedVoid]
    ELSE [heap |-> h, out |-> Rejected(tr.error)]

(* ------------------------- App's own methods --------------------------- *)
\* An update that takes from the answer only the fields it sent.
App_update_merging(h, c, tr) ==
    LET r == AppImpl_update(h, c, tr)
    IN IF r.out.state = "resolved"
       THEN [heap |-> [r.heap EXCEPT ![c.self] =
                         [f \in DOMAIN @ |-> IF f \in DOMAIN c.args.params
                                             THEN r.heap[r.out.ref][f] ELSE @[f]]],
             out |-> ResolvedApp(c.self)]
       ELSE r

\* An update that writes the params onto this before the answer is known
\* and does not take them back when the request fails.
App_update_optimistic(h, c, tr) ==
    LET r == AppImpl_update(h, c, tr)
    IN IF r.out.state = "resolved"
       THEN [heap |-> [r.heap EXCEPT ![c.self] = ObjectAssign(@, r.heap[r.out.ref])],
             out |-> ResolvedApp(c.self)]
       ELSE [heap |-> [h EXCEPT ![c.self] = ObjectAssign(@, c.args.params)],
             out |-> r.out]

\* An update that hands back the object AppImpl.update built and leaves
\* this alone.
App_update_fresh(h, c, tr) == AppImpl_update(h, c, tr)

\* Object.assign(this, await AppImpl.update(this.client, this.id, params));
\* return this;
App_update(h, c, tr) ==
    LET r == AppImpl_update(h, c, tr)
    IN IF r.out.state = "resolved"
       THEN [heap |-> [r.heap EXCEPT ![c.self] = ObjectAssign(@, r.heap[r.out.ref])],
             out |-> ResolvedApp(c.self)]
       ELSE r

\* A delete that empties the object once its resource is gone.
App_delete_invalidating(h, c, tr) ==
    IF tr.ok
    THEN [heap |-> [h EXCEPT ![c.self] =
                      [f \in DOMAIN @ |-> IF f = "client" THEN @[f] ELSE Undefined]],
          out |-> ResolvedVoid]
    ELSE [heap |-> h, out |-> Rejected(tr.error)]

\* return AppImpl.delete_(this.client, this.id)
App_delete(h, c, tr) == AppImpl_delete_(h, c, tr)

\* return ConsentImpl.create(this.client, this.id, params)
App_createConsent(h, c, tr) == ConsentImpl_create(h, c, tr)

\* return ConsentImpl.list(this.client, this.id)
App_listConsents(h, c, tr) == ConsentImpl_list(h, c, tr)

\* return ConsentImpl.delete_(this.client, this.id, consentId)
App_deleteConsent(h, c, tr) == ConsentImpl_delete_(h, c, tr)

(* ------------------------ namespace DatasetImpl ------------------------ *)
DATASETS_EP == "datasets"

K_tags == <<"t", "a", "g", "s">>

Tags == {"tag1", "tag2"}

PODDatasets ==
    {[id |-> Str("d1"), createdAt |-> Str("2021-03-04T05:06:07.000Z"),
      creator |-> Str("i1"), owner |-> Str("i2"),
      metadata |-> Matcher("tags", <<"mock", "dataset">>)]}

\* The filters handed to DatasetImpl.list: with or without a tags matcher,
\* alone or between an owner and the pagination controls.
DatasetFilters ==
    LET tagsEntries ==
            {<<>>} \cup {<<<<K_tags, Matcher(k, ts)>>>> :
                            k \in {"all", "any"}, ts \in SeqsUpTo(Tags, MaxTags)}
    IN tagsEntries
       \cup {<<<<K_owner, Str("i2")>>>> \o e
               \o <<<<K_pageSize, Num(2)>>, <<K_nextPageToken, Str("tok1")>>>> :
               e \in tagsEntries}

\* tags.join(',')
RECURSIVE JoinComma(_)
JoinComma(xs) ==
    IF xs = <<>> THEN ""
    ELSE IF Len(xs) = 1 THEN xs[1]
    ELSE xs[1] \o "," \o JoinComma(Tail(xs))

\* The composite encoding of a tags matcher: its kind, a colon and the
\* tags joined by commas.
tagsFilter(m) == Str(m.s \o ":" \o JoinComma(m.l))

\* The filter with its tags matcher replaced by the matcher's encoding.
withTagsFilter(filter) ==
    [i \in 1..Len(filter) |->
        IF filter[i][1] = K_tags
        THEN <<K_tags, tagsFilter(filter[i][2])>>
        ELSE filter[i]]

\* A list request that hands the matcher object to the transport as it is.
DatasetImpl_list_req_opaque(filter) == Req("GET", DATASETS_EP, toQuery(filter), NoBody)

\* client.get(DATASETS_EP, {...filter, tags: tagsFilter})
DatasetImpl_list_req(filter) ==
    Req("GET", DATASETS_EP, toQuery(withTagsFilter(filter)), NoBody)

\* new Dataset(client, pod)
Dataset(client, pod) ==
    [client |-> ClientRef(client),
     id |-> Get(pod, "id"),
     createdAt |-> NewDate(Get(pod, "createdAt")),
     creator |-> Get(pod, "creator"),
     owner |-> Get(pod, "owner"),
     metadata |-> Get(pod, "metadata")]

DatasetImpl_list(h, c, tr) ==
    IF tr.ok
    THEN LET podPage == tr.body
         IN [heap |-> h,
             out |-> ResolvedValuePage("Page<Dataset>",
                 [i \in 1..Len(podPage.results) |-> Dataset(c.client, podPage.results[i])],
                 Get(podPage, "nextPageToken"))]
    ELSE [heap |-> h, out |-> Rejected(tr.error)]

(* -------------------------- dataset download --------------------------- *)
\* The chunks a response body is delivered in.
Chunks == {"fixture ", "data"}

\* new Error(message), as a destination raises it.
SinkError(message) == [name |-> "Error", message |-> message]

\* The options a DownloadCollector is constructed with: none, or the error
\* its writes are to report.
CollectorOptions == {NoError, SinkError("whoops"), SinkError("disk full")}

\* new DownloadCollector(options)
DownloadCollector(options) == [bufs |-> <<>>, options |-> options]

\* DownloadCollector._write(chunk, _encoding, cb): the collector after the
\* write and the argument cb was called with.
DownloadCollector__write(s, chunk) ==
    IF s.options # NoError
    THEN [sink |-> s, cb |-> s.options]
    ELSE [sink |-> [s EXCEPT !.bufs = Append(@, chunk)], cb |-> NoError]

endpointForDownload(id) == DATASETS_EP \o "/" \o TemplateText(id) \o "/download"

\* A download handle: the request it stands for, the answer's status and
\* body, the number of chunks handed to the sink, the write callbacks not
\* yet delivered, and how pipeTo settled.
NoDownload ==
    [phase |-> "idle", via |-> "", req |-> NoReq, status |-> 0, body |-> <<>>,
     pos |-> 0, cbs |-> <<>>, out |-> NoOut]

\* downloadDataset(id) / dataset.download() followed by pipeTo(sink).
Download(via, id) ==
    [NoDownload EXCEPT !.phase = "requested", !.via = via,
                       !.req = Req("GET", endpointForDownload(id), <<>>, NoBody)]

\* A pipe that streams whatever body the answer carries.
Download_onResponse_unchecked(d, resp) ==
    [d EXCEPT !.phase = "streaming", !.status = resp.status, !.body = resp.body]

\* streamDownload expects 200: any other status fails the handle before
\* the first byte.
Download_onResponse(d, resp) ==
    IF resp.status = 200
    THEN [d EXCEPT !.phase = "streaming", !.status = resp.status, !.body = resp.body]
    ELSE [d EXCEPT !.phase = "done", !.status = resp.status,
                   !.out = Rejected(ErrorFor(resp.status))]

\* A pipe that hands over chunks without waiting for the sink.
Download_ready_eager(d) == d.phase = "streaming"

\* The pipe moves on only when the sink has acknowledged the previous write.
Download_ready(d) == d.phase = "streaming" /\ d.cbs = <<>>

\* A pipe that reports its own error when the sink fails.
Download_onCallback_generic(d, cb) ==
    IF cb = NoError
    THEN [d EXCEPT !.cbs = Tail(@)]
    ELSE [d EXCEPT !.cbs = <<>>, !.phase = "done",
                   !.out = Rejected(SinkError("write failed"))]

\* The sink's answer to a write: on an error the stream is aborted and
\* pipeTo fails with that error.
Download_onCallback(d, cb) ==
    IF cb = NoError
    THEN [d EXCEPT !.cbs = Tail(@)]
    ELSE [d EXCEPT !.cbs = <<>>, !.phase = "done", !.out = Rejected(cb)]

\* What the gateway may answer to a download: 200 with the body, or an
\* error status with or without a body of its own.
DownloadAnswers ==
    {[status |-> 200, body |-> b] : b \in SeqsUpTo(Chunks, MaxChunks)}
    \cup {[status |-> 404, body |-> <<>>],
          [status |-> 500, body |-> <<"Internal Server Error">>]}

(* --------------------------- dataset upload ---------------------------- *)
\* JSON.stringify of a list of strings, without the brackets.
RECURSIVE JSONItems(_)
JSONItems(xs) ==
    IF xs = <<>> THEN ""
    ELSE IF Len(xs) = 1 THEN "\"" \o xs[1] \o "\""
    ELSE "\"" \o xs[1] \o "\"," \o JSONItems(Tail(xs))

\* JSON.stringify(v)
JSONText(v) ==
    CASE v.t = "string" -> "\"" \o v.s \o "\""
      [] v.t = "number" -> NumberText(v.n)
      [] v.t = "boolean" -> v.s
      [] v.t = "array" -> "[" \o JSONItems(v.l) \o "]"
      [] v.t = "object" -> "{\"" \o v.s \o "\":[" \o JSONItems(v.l) \o "]}"
      [] OTHER -> "null"

\* The metadata a caller may attach to an upload.
Metadatas == {Matcher("tags", <<"mock", "dataset">>), Matcher("tags", <<>>)}

\* uploadDataset(data, params?): params is left out or is {metadata: m}.
DatasetUploadParamsSet == {NoBody} \cup {[metadata |-> m] : m \in Metadatas}

\* One part of a multipart/form-data body.
Part(name, contentType, content) ==
    [name |-> name, contentType |-> contentType, content |-> content]

\* A form that carries a metadata part in every upload.
Upload_parts_always(data, params) ==
    <<Part("metadata", "application/json",
           <<IF params = NoBody THEN "null"
             ELSE "{\"metadata\":" \o JSONText(params.metadata) \o "}">>),
      Part("data", "application/octet-stream", data)>>

\* The form of an upload: the metadata part, the JSON text of the params
\* object, when params were supplied, then the data part with the payload.
Upload_parts(data, params) ==
    (IF params = NoBody THEN <<>>
     ELSE <<Part("metadata", "application/json",
                 <<"{\"metadata\":" \o JSONText(params.metadata) \o "}">>)>>)
    \o <<Part("data", "application/octet-stream", data)>>

\* An upload handle: the multipart request it sent, how many requests it
\* has sent, the answer, and how its result settled.
NoUpload ==
    [phase |-> "idle", client |-> "", data |-> <<>>, params |-> NoBody,
     req |-> NoReq, sent |-> 0, response |-> NoAnswer, out |-> NoOut]

\* DatasetImpl.upload(client, data, params)
Upload(client, data, params) ==
    [NoUpload EXCEPT !.phase = "sent", !.client = client, !.data = data,
                     !.params = params, !.sent = 1,
                     !.req = Req("POST", DATASETS_EP, <<>>,
                                 [parts |-> Upload_parts(data, params)])]

\* An upload that hands out a Dataset whatever the answer.
Upload_onResponse_partial(u, resp) ==
    [u EXCEPT !.phase = "done", !.response = resp,
              !.out = ResolvedValue("Dataset", Dataset(u.client, resp.body))]

\* streamUpload expects 2xx: the Dataset is built from the answer, and any
\* other end of the request fails the handle.
Upload_onResponse(u, resp) ==
    IF resp.status >= 200 /\ resp.status < 300
    THEN [u EXCEPT !.phase = "done", !.response = resp,
                   !.out = ResolvedValue("Dataset", Dataset(u.client, resp.body))]
    ELSE [u EXCEPT !.phase = "done", !.response = resp,
                   !.out = Rejected(ErrorFor(resp.status))]

\* How an upload may end: 201 with the created dataset, an error status, or
\* (status 0) a connection lost while the parts were being sent.
UploadAnswers ==
    {[status |-> 201, body |-> b] : b \in PODDatasets}
    \cup {[status |-> st, body |-> NoBody] : st \in {0, 404, 500}}

(* ----------------------- snapshots and back --------------------------- *)
\* createPodApp(): the snapshot the unit tests answer app requests with.
FixturePodApp ==
    [id |-> Str("a1"),
     createdAt |-> Str("2021-03-04T05:06:07.000Z"),
     acceptanceText |-> Str("thanks for the data!"),
     brandingColor |-> Str("#abcdef"),
     category |-> Str("testing"),
     owner |-> Str("i1"),
     admins |-> Arr(<<"i1">>),
     collaborators |-> Arr(<<"i2", "i3">>),
     extendedDescription |-> Str("looooong description"),
     homepage |-> Str("https://friendly.app"),
     invitationText |-> Str("plz give data"),
     inviteOnly |-> Bool(TRUE),
     invites |-> Arr(<<"i4">>),
     name |-> Str("test app"),
     organization |-> Str("Oasis Labs"),
     participants |-> Arr(<<>>),
     privacyPolicy |-> Str("https://friendly.app/privacy"),
     published |-> Bool(FALSE),
     rejectionText |-> Str(":("),
     shortDescription |-> Str("shrt dscrptn"),
     termsAndConditions |-> Str("https://friendly.app/terms"),
     logo |-> Str("data:image/png;base64,SGVsbG8sIFdvcmxkIQ==")]

\* The snapshots an App is constructed from: those of the declared wire
\* shape, the tests' fixture, and the fixture without two optional fields.
Snapshots ==
    PODApps \cup {FixturePodApp, Without(FixturePodApp, {"acceptanceText", "logo"})}

\* Date.prototype.toISOString / toJSON: the canonical spelling of an instant.
toISOString(ms) ==
    CASE ms = 1 -> Str("2021-03-04T05:06:07.000Z")
      [] ms = 2 -> Str("2022-01-01T00:00:00.000Z")
      [] OTHER -> [t |-> "null", s |-> "", n |-> 0, l |-> <<>>]

\* JSON.parse(JSON.stringify(obj)): properties holding undefined are left
\* out and a Date becomes its ISO text.
toPlainData(obj) ==
    [f \in {g \in DOMAIN obj : obj[g] # Undefined} |->
        IF obj[f].t = "Date" THEN toISOString(obj[f].n) ELSE obj[f]]

(* ------------------- a gateway that stores its apps -------------------- *)
\* The apps the gateway holds and the answers on their way to the client.
NoGateway == [apps |-> {}, replies |-> {}]

Stored(apps, id) == {p \in apps : p.id = id}

\* The app an item endpoint addresses.
Addressed(req) == {Str(id) : id \in {i \in AppIds : req.endpoint = endpointForId(Str(i))}}

\* POST apps: a new unpublished app under a free id, overwritten with what
\* was sent; 500 when the gateway has no id left.
Gateway_create(apps, req) ==
    LET free == {id \in AppIds : Stored(apps, Str(id)) = {}}
    IN IF free = {}
       THEN [apps |-> apps, resp |-> [status |-> 500, body |-> NoBody]]
       ELSE LET id == CHOOSE i \in free : TRUE
                pod == ObjectAssign(FullPod(id, FALSE, "", "2021-03-04T05:06:07.000Z"),
                                    req.body)
            IN [apps |-> apps \cup {pod}, resp |-> [status |-> 201, body |-> pod]]

\* GET, PUT and DELETE of an item: 404 unless the app is stored; PUT stores
\* the app overwritten with what was sent and answers with it; DELETE
\* forgets the app and answers 204.
Gateway_item(apps, req) ==
    LET found == UNION {Stored(apps, id) : id \in Addressed(req)}
    IN IF found = {}
       THEN [apps |-> apps, resp |-> [status |-> 404, body |-> NoBody]]
       ELSE LET old == CHOOSE p \in found : TRUE
                new == ObjectAssign(old, req.body)
            IN CASE req.method = "GET" ->
                      [apps |-> apps, resp |-> [status |-> 200, body |-> old]]
                 [] req.method = "PUT" ->
                      [apps |-> (apps \ {old}) \cup {new},
                       resp |-> [status |-> 200, body |-> new]]
                 [] req.method = "DELETE" ->
                      [apps |-> apps \ {old}, resp |-> [status |-> 204, body |-> NoBody]]

Gateway_serve(apps, req) ==
    IF req.method = "POST" /\ req.endpoint = APPS_EP
    THEN Gateway_create(apps, req)
    ELSE Gateway_item(apps, req)

\* What a caller creates its app with in the scenario.
ScenarioCreateParamsSet == {[name |-> Str("my app"), published |-> Bool(FALSE)]}

(* ------------------------- paging through a list ---------------------- *)
\* The cursor the listing gateway hands out for the items after the first
\* off ones.
TokenFor(off) == "tok" \o NumberText(off)

\* The values the query carries under the given parameter name.
QueryValues(query, name) ==
    {query[i][2] : i \in {j \in 1..Len(query) : query[j][1] = name}}

\* GET apps on a gateway holding the collection: the page-size items after
\* the cursor's position, with a cursor when more follow; 400 for a cursor
\* or a page size the gateway does not know.
Listing_serve(collection, req) ==
    LET n == Len(collection)
        sizes == {k \in 1..n + MaxPage :
                    NumberText(k) \in QueryValues(req.query, paramCase(K_pageSize))}
        cursors == QueryValues(req.query, paramCase(K_nextPageToken))
        offsets == IF cursors = {} THEN {0}
                   ELSE {k \in 1..n : TokenFor(k) \in cursors}
    IN IF sizes = {} \/ offsets = {}
       THEN [status |-> 400, body |-> NoBody]
       ELSE LET size == CHOOSE k \in sizes : TRUE
                off == CHOOSE k \in offsets : TRUE
                upto == IF off + size < n THEN off + size ELSE n
                results == SubSeq(collection, off + 1, upto)
            IN [status |-> 200,
                body |-> IF upto < n
                         THEN [results |-> results, nextPageToken |-> Str(TokenFor(upto))]
                         ELSE [results |-> results]]

\* A caller's pagination loop: its state, the collection the gateway holds,
\* the page size asked for, the cursor of the page just received, the
\* cursor the gateway put on that page, and the objects received so far.
NoPager ==
    [state |-> "IDLE", collection |-> <<>>, pageSize |-> 0, token |-> Undefined,
     issued |-> Undefined, received |-> <<>>]

\* The filter of the loop's next list call: nextPageToken is set to the
\* token of the page just received.
Pager_filter(p) ==
    <<<<K_pageSize, Num(p.pageSize)>>>>
    \o (IF p.state = "HAS_MORE" THEN <<<<K_nextPageToken, p.token>>>> ELSE <<>>)

\* The loop takes the page: HAS_MORE while the page carries a cursor,
\* EXHAUSTED when it carries none.
Pager_onPage(p, resp, out) ==
    IF out.state = "resolved"
    THEN [p EXCEPT !.received = @ \o out.results,
                   !.token = out.nextPageToken,
                   !.issued = Get(resp.body, "nextPageToken"),
                   !.state = IF out.nextPageToken = Undefined
                             THEN "EXHAUSTED" ELSE "HAS_MORE"]
    ELSE [p EXCEPT !.state = "FAILED", !.issued = Undefined]

(* ------------------- filters as the gateway reads them ----------------- *)
\* A string whose characters matter is the sequence of its characters.
Chars(cs) == [t |-> "chars", s |-> "", n |-> 0, l |-> cs]

\* The tags a caller may filter by; some hold the characters the composite
\* encoding is written with, one is the empty string.
TagTexts == {<<"t", "1">>, <<"a", ",", "b">>, <<"x", ":", "y">>, <<>>}

\* The characters of a matcher's kind.
KindChars(kind) ==
    CASE kind = "all" -> <<"a", "l", "l">>
      [] kind = "any" -> <<"a", "n", "y">>

\* tags.join(','), character by character.
RECURSIVE JoinChars(_)
JoinChars(xs) ==
    IF xs = <<>> THEN <<>>
    ELSE IF Len(xs) = 1 THEN xs[1]
    ELSE xs[1] \o <<",">> \o JoinChars(Tail(xs))

\* An encoding that leaves the kind of the matcher out.
tagsFilterChars_kindless(m) == Chars(<<":">> \o JoinChars(m.l))

\* The composite encoding of a tags matcher, character by character.
tagsFilterChars(m) == Chars(KindChars(m.s) \o <<":">> \o JoinChars(m.l))

\* The query parameters of a dataset filter: the tags matcher in its
\* composite encoding, every other value in its string form.
Codec_toQuery(filter) ==
    [i \in 1..Len(filter) |->
        <<paramCase(filter[i][1]),
          IF filter[i][1] = K_tags THEN tagsFilterChars(filter[i][2])
          ELSE Str(ScalarText(filter[i][2]))>>]

ToUpper(c) ==
    IF \E i \in 1..Len(LowerChars) : LowerChars[i] = c
    THEN UpperChars[CHOOSE i \in 1..Len(LowerChars) : LowerChars[i] = c]
    ELSE c

\* The property name a query parameter name stands for: the character after
\* a hyphen is upper-cased and the hyphen dropped.
RECURSIVE camelCaseFrom(_, _)
camelCaseFrom(name, i) ==
    IF i > Len(name) THEN <<>>
    ELSE IF name[i] = "-" /\ i < Len(name)
         THEN <<ToUpper(name[i + 1])>> \o camelCaseFrom(name, i + 2)
         ELSE <<name[i]>> \o camelCaseFrom(name, i + 1)

camelCase(name) == camelCaseFrom(name, 1)

\* text.split(sep): the pieces of text between the occurrences of sep.
RECURSIVE SplitChars(_, _)
SplitChars(text, sep) ==
    IF \A i \in 1..Len(text) : text[i] # sep THEN <<text>>
    ELSE LET k == CHOOSE i \in 1..Len(text) :
                     text[i] = sep /\ \A j \in 1..(i - 1) : text[j] # sep
         IN <<SubSeq(text, 1, k - 1)>> \o SplitChars(SubSeq(text, k + 1, Len(text)), sep)

\* The kind a matcher's encoding starts with.
KindOf(cs) ==
    CASE cs = <<"a", "l", "l">> -> "all"
      [] cs = <<"a", "n", "y">> -> "any"
      [] OTHER -> "unknown"

\* Reading a composite tags parameter: the kind up to the first colon, then
\* the tags between the commas; no tags when nothing follows the colon.
parseTags(text) ==
    LET parts == SplitChars(text, ":")
        rest == SubSeq(text, Len(parts[1]) + 2, Len(text))
    IN Matcher(KindOf(parts[1]), IF rest = <<>> THEN <<>> ELSE SplitChars(rest, ","))

\* Number(text) for the page sizes in use.
ParseNumber(text) ==
    CASE text = "0" -> 0 [] text = "1" -> 1 [] text = "2" -> 2 [] text = "3" -> 3
      [] OTHER -> NaN

\* Reading a query back into a filter, each parameter by its schema.
parseQuery(query) ==
    [i \in 1..Len(query) |->
        LET key == camelCase(query[i][1])
            v == query[i][2]
        IN <<key, CASE key = K_tags -> parseTags(v.l)
                    [] key = K_pageSize -> Num(ParseNumber(v.s))
                    [] OTHER -> Str(v.s)>>]

\* The filters translated: equality on the owner, any-of and all-of over
\* tag lists, alone or with the pagination controls.
CodecFilters ==
    LET tagsEntries ==
            {<<>>} \cup {<<<<K_tags, Matcher(k, ts)>>>> :
                            k \in {"all", "any"}, ts \in SeqsUpTo(TagTexts, MaxTags)}
    IN (tagsEntries \ {<<>>})
       \cup {<<<<K_owner, Str("i2")>>>> \o e
               \o <<<<K_pageSize, Num(2)>>, <<K_nextPageToken, Str("tok1")>>>> :
               e \in tagsEntries}

NoCodec == [phase |-> "idle", filter |-> <<>>, query |-> <<>>, parsed |-> <<>>]

(* ------------------------ the example's job ---------------------------- *)
\* The compute-basic example (main.ts): the job is submitted, its status is
\* polled until it has finished, and its first output document is fetched.
DocumentIds == {"doc1", "doc2"}

\* The phases in which the loop polls again, and the others.
WaitingPhases == {"PENDING", "RUNNING"}
JobPhases == WaitingPhases \cup {"SUCCEEDED", "FAILED"}

NoStatus == [phase |-> "", outputDocuments |-> <<>>]

\* The status reports the gateway may give: a job that has not finished has
\* no output documents yet, one that has finished has any number of them.
JobStatusReports ==
    {[phase |-> ph, outputDocuments |-> <<>>] : ph \in WaitingPhases}
    \cup {[phase |-> ph, outputDocuments |-> docs] :
            ph \in JobPhases \ WaitingPhases, docs \in SeqsUpTo(DocumentIds, 1)}
    \cup {[phase |-> "SUCCEEDED", outputDocuments |-> <<"doc1", "doc2">>]}

\* What an awaited request of the example settles with: a value, or the
\* error the transport raises.  The poll numbered MaxPolls finds the job
\* finished, if it is answered.
JobAnswers(k) ==
    {[ok |-> TRUE, report |-> r] :
        r \in {x \in JobStatusReports : k < MaxPolls \/ x.phase \notin WaitingPhases}}
    \cup {[ok |-> FALSE, report |-> NoStatus]}

NoJob ==
    [pc |-> "idle", waits |-> 0, polls |-> 0, inFlight |-> 0, status |-> NoStatus,
     error |-> "", download |-> ""]

\* A loop that goes on only while the job has not started.
Job_continues_pendingOnly(status) == status.phase = "PENDING"

\* while (job.status.phase === JobPhase.PENDING ||
\*        job.status.phase === JobPhase.RUNNING)
Job_continues(status) == status.phase = "PENDING" \/ status.phase = "RUNNING"

\* job = await parcelAcme.getJobStatus(jobId): the report is kept, or the
\* error leaves the script.
Job_onStatus(j, answer) ==
    IF answer.ok
    THEN [j EXCEPT !.pc = "test", !.inFlight = @ - 1, !.status = answer.report]
    ELSE [j EXCEPT !.pc = "failed", !.inFlight = @ - 1, !.error = "RequestError"]

\* parcelBob.downloadDocument(job.status.outputDocuments[0].id): reading id
\* of undefined throws a TypeError.
Job_output(j) ==
    IF j.status.outputDocuments = <<>>
    THEN [j EXCEPT !.pc = "crashed", !.error = "TypeError"]
    ELSE [j EXCEPT !.pc = "downloading", !.download = j.status.outputDocuments[1]]

(* --------------------------- state machine ----------------------------- *)
\* last describes the operation that settled in the latest step, if any.
NoLast == [call |-> NoCall, response |-> NoAnswer, out |-> NoOut]

Init ==
    /\ heap = <<>>
    /\ calls = {}
    /\ nCalls = 0
    /\ last = NoLast
    /\ download = NoDownload
    /\ sink = DownloadCollector(NoError)
    /\ upload = NoUpload
    /\ gateway = NoGateway
    /\ pager = NoPager
    /\ codec = NoCodec
    /\ job = NoJob

\* The number of objects the continuation of a call may construct.
Alloc(op) ==
    CASE op \in {"AppImpl.create", "AppImpl.get", "AppImpl.update", "App.update"} -> 1
      [] op = "AppImpl.list" -> MaxPage
      [] OTHER -> 0

RECURSIVE Reserved(_)
Reserved(cs) ==
    IF cs = {} THEN 0
    ELSE LET c == CHOOSE x \in cs : TRUE IN Alloc(c.op) + Reserved(cs \ {c})

\* The synchronous part of an operation: the request req leaves through the
\* transport client and the operation waits for the answer.
Issue(op, self, client, args, req) ==
    /\ nCalls < MaxCalls
    /\ Cardinality(calls) < MaxInFlight
    /\ Len(heap) + Reserved(calls) + Alloc(op) <= MaxObjs
    /\ calls' = calls \cup
         {[cid |-> nCalls + 1, op |-> op, self |-> self, client |-> client,
           args |-> args, req |-> req]}
    /\ nCalls' = nCalls + 1
    /\ last' = NoLast
    /\ UNCHANGED <<heap, streams, gateway, pager, examples>>

\* A continuation that, on a failure, leaves the request with the
\* transport for another answer.
Finish_retrying(c, resp, r) ==
    /\ heap' = r.heap
    /\ calls' = IF r.out.state = "rejected" THEN calls ELSE calls \ {c}
    /\ last' = [call |-> c, response |-> resp, out |-> r.out]
    /\ UNCHANGED <<nCalls, streams, gateway, pager, examples>>

\* The continuation of an operation once the transport has settled.
Finish(c, resp, r) ==
    /\ heap' = r.heap
    /\ calls' = calls \ {c}
    /\ last' = [call |-> c, response |-> resp, out |-> r.out]
    /\ UNCHANGED <<nCalls, streams, gateway, pager, examples>>

Objs == 1..Len(heap)

Call_AppImpl_create ==
    \E client \in Clients, params \in AppCreateParamsSet :
        Issue("AppImpl.create", 0, client, [NoArgs EXCEPT !.params = params],
              AppImpl_create_req(params))

Settle_AppImpl_create ==
    \E c \in calls : \E resp \in Answers(c.req.method, PODApps) :
        /\ c.op = "AppImpl.create"
        /\ Finish(c, resp, AppImpl_create(heap, c, HttpSettle(c.req.method, resp)))

Call_AppImpl_get ==
    \E client \in Clients, id \in AppIds :
        Issue("AppImpl.get", 0, client, [NoArgs EXCEPT !.id = Str(id)],
              AppImpl_get_req(Str(id)))

Settle_AppImpl_get ==
    \E c \in calls : \E resp \in Answers(c.req.method, PODApps) :
        /\ c.op = "AppImpl.get"
        /\ Finish(c, resp, AppImpl_get(heap, c, HttpSettle(c.req.method, resp)))

Call_AppImpl_list ==
    \E client \in Clients, filter \in AppFilters :
        Issue("AppImpl.list", 0, client, [NoArgs EXCEPT !.filter = filter],
              AppImpl_list_req(filter))

Settle_AppImpl_list ==
    \E c \in calls : \E resp \in Answers(c.req.method, PagesOf(ListedApps)) :
        /\ c.op = "AppImpl.list"
        /\ Finish(c, resp, AppImpl_list(heap, c, HttpSettle(c.req.method, resp)))

Call_AppImpl_update ==
    \E client \in Clients, id \in AppIds, params \in AppUpdateParamsSet :
        Issue("AppImpl.update", 0, client,
              [NoArgs EXCEPT !.id = Str(id), !.params = params],
              AppImpl_update_req(Str(id), params))

Settle_AppImpl_update ==
    \E c \in calls : \E resp \in Answers(c.req.method, PODApps) :
        /\ c.op = "AppImpl.update"
        /\ Finish(c, resp, AppImpl_update(heap, c, HttpSettle(c.req.method, resp)))

Call_AppImpl_delete_ ==
    \E client \in Clients, id \in AppIds :
        Issue("AppImpl.delete_", 0, client, [NoArgs EXCEPT !.id = Str(id)],
              AppImpl_delete__req(Str(id)))

Settle_AppImpl_delete_ ==
    \E c \in calls : \E resp \in DeleteAnswers :
        /\ c.op = "AppImpl.delete_"
        /\ Finish(c, resp, AppImpl_delete_(heap, c, HttpSettle(c.req.method, resp)))

\* App.update(params): AppImpl.update(this.client, this.id, params) is
\* called with the transport and id the object holds at this moment.
Call_App_update ==
    \E self \in Objs, params \in AppUpdateParamsSet :
        Issue("App.update", self, heap[self].client.s,
              [NoArgs EXCEPT !.id = heap[self].id, !.params = params],
              AppImpl_update_req(heap[self].id, params))

Settle_App_update ==
    \E c \in calls : \E resp \in Answers(c.req.method, PODApps) :
        /\ c.op = "App.update"
        /\ Finish(c, resp, App_update(heap, c, HttpSettle(c.req.method, resp)))

Call_App_delete ==
    \E self \in Objs :
        Issue("App.delete", self, heap[self].client.s,
              [NoArgs EXCEPT !.id = heap[self].id],
              AppImpl_delete__req(heap[self].id))

Settle_App_delete ==
    \E c \in calls : \E resp \in DeleteAnswers :
        /\ c.op = "App.delete"
        /\ Finish(c, resp, App_delete(heap, c, HttpSettle(c.req.method, resp)))

Call_App_createConsent ==
    \E self \in Objs, params \in ConsentCreateParamsSet :
        Issue("App.createConsent", self, heap[self].client.s,
              [NoArgs EXCEPT !.id = heap[self].id, !.params = params],
              ConsentImpl_create_req(heap[self].id, params))

Settle_App_createConsent ==
    \E c \in calls : \E resp \in Answers(c.req.method, PODConsents) :
        /\ c.op = "App.createConsent"
        /\ Finish(c, resp, App_createConsent(heap, c, HttpSettle(c.req.method, resp)))

Call_App_listConsents ==
    \E self \in Objs :
        Issue("App.listConsents", self, heap[self].client.s,
              [NoArgs EXCEPT !.id = heap[self].id],
              ConsentImpl_list_req(heap[self].id))

Settle_App_listConsents ==
    \E c \in calls : \E resp \in Answers(c.req.method, PagesOf(PODConsents)) :
        /\ c.op = "App.listConsents"
        /\ Finish(c, resp, App_listConsents(heap, c, HttpSettle(c.req.method, resp)))

Call_App_deleteConsent ==
    \E self \in Objs, consentId \in ConsentIds :
        Issue("App.deleteConsent", self, heap[self].client.s,
              [NoArgs EXCEPT !.id = heap[self].id, !.consentId = Str(consentId)],
              ConsentImpl_delete__req(heap[self].id, Str(consentId)))

Settle_App_deleteConsent ==
    \E c \in calls : \E resp \in DeleteAnswers :
        /\ c.op = "App.deleteConsent"
        /\ Finish(c, resp, App_deleteConsent(heap, c, HttpSettle(c.req.method, resp)))

Next ==
    \/ Call_AppImpl_create
    \/ Settle_AppImpl_create
    \/ Call_AppImpl_get
    \/ Settle_AppImpl_get
    \/ Call_AppImpl_list
    \/ Settle_AppImpl_list
    \/ Call_AppImpl_update
    \/ Settle_AppImpl_update
    \/ Call_AppImpl_delete_
    \/ Settle_AppImpl_delete_
    \/ Call_App_update
    \/ Settle_App_update
    \/ Call_App_delete
    \/ Settle_App_delete
    \/ Call_App_createConsent
    \/ Settle_App_createConsent
    \/ Call_App_listConsents
    \/ Settle_App_listConsents
    \/ Call_App_deleteConsent
    \/ Settle_App_deleteConsent

Spec == Init /\ [][Next]_vars

(* ---------------------- dataset listings alone ------------------------- *)
\* One listing at a time: Parcel.listDatasets(filter) is awaited before the
\* next one starts.
Call_DatasetImpl_list ==
    \E client \in Clients, filter \in DatasetFilters :
        /\ calls = {}
        /\ calls' = {[cid |-> 1, op |-> "DatasetImpl.list", self |-> 0,
                      client |-> client,
                      args |-> [NoArgs EXCEPT !.filter = filter],
                      req |-> DatasetImpl_list_req(filter)]}
        /\ last' = NoLast
        /\ UNCHANGED <<heap, nCalls, streams, gateway, pager, examples>>

Settle_DatasetImpl_list ==
    \E c \in calls : \E resp \in Answers(c.req.method, PagesOf(PODDatasets)) :
        /\ c.op = "DatasetImpl.list"
        /\ Finish(c, resp, DatasetImpl_list(heap, c, HttpSettle(c.req.method, resp)))

NextDatasets == Call_DatasetImpl_list \/ Settle_DatasetImpl_list

DatasetSpec == Init /\ [][NextDatasets]_vars

(* ------------------------- dataset downloads --------------------------- *)
\* parcel.downloadDataset(id).pipeTo(sink), or dataset.download().pipeTo(sink)
\* on a Dataset retrieved earlier: the download request leaves.
Download_pipeTo ==
    \E via \in {"Parcel.downloadDataset", "Dataset.download"},
       client \in Clients, pod \in PODDatasets, options \in CollectorOptions :
        /\ download.phase = "idle"
        /\ download' = Download(via, IF via = "Dataset.download"
                                     THEN Dataset(client, pod).id
                                     ELSE Get(pod, "id"))
        /\ sink' = DownloadCollector(options)
        /\ UNCHANGED <<upload, resources, gateway, pager, examples>>

\* The answer's status line and headers arrive.
Download_response ==
    \E resp \in DownloadAnswers :
        /\ download.phase = "requested"
        /\ download' = Download_onResponse(download, resp)
        /\ UNCHANGED <<sink, upload, resources, gateway, pager, examples>>

\* The next chunk of the body is written to the sink.
Download_write ==
    /\ Download_ready(download)
    /\ download.pos < Len(download.body)
    /\ LET w == DownloadCollector__write(sink, download.body[download.pos + 1])
       IN /\ sink' = w.sink
          /\ download' = [download EXCEPT !.pos = @ + 1, !.cbs = Append(@, w.cb)]
    /\ UNCHANGED <<upload, resources, gateway, pager, examples>>

\* The sink's callback for the oldest outstanding write is delivered.
Download_callback ==
    /\ download.phase = "streaming"
    /\ download.cbs # <<>>
    /\ download' = Download_onCallback(download, Head(download.cbs))
    /\ UNCHANGED <<sink, upload, resources, gateway, pager, examples>>

\* The body has ended: pipeTo resolves.
Download_end ==
    /\ Download_ready(download)
    /\ download.pos = Len(download.body)
    /\ download' = [download EXCEPT !.phase = "done", !.out = ResolvedVoid]
    /\ UNCHANGED <<sink, upload, resources, gateway, pager, examples>>

NextDownloads ==
    \/ Download_pipeTo
    \/ Download_response
    \/ Download_write
    \/ Download_callback
    \/ Download_end

DownloadSpec == Init /\ [][NextDownloads]_vars

(* -------------------------- dataset uploads ---------------------------- *)
\* parcel.uploadDataset(data, params): the multipart request leaves.
Upload_start ==
    \E client \in Clients, data \in SeqsUpTo(Chunks, MaxChunks),
       params \in DatasetUploadParamsSet :
        /\ upload.phase = "idle"
        /\ upload' = Upload(client, data, params)
        /\ UNCHANGED <<download, sink, resources, gateway, pager, examples>>

\* The request ends, with an answer or without one.
Upload_finished ==
    \E resp \in UploadAnswers :
        /\ upload.phase = "sent"
        /\ upload' = Upload_onResponse(upload, resp)
        /\ UNCHANGED <<download, sink, resources, gateway, pager, examples>>

NextUploads == Upload_start \/ Upload_finished

UploadSpec == Init /\ [][NextUploads]_vars

(* ------------- operations against the gateway that stores -------------- *)
\* The continuation of each operation.
Continue(h, c, tr) ==
    CASE c.op = "AppImpl.create" -> AppImpl_create(h, c, tr)
      [] c.op = "AppImpl.get" -> AppImpl_get(h, c, tr)
      [] c.op = "AppImpl.list" -> AppImpl_list(h, c, tr)
      [] c.op = "App.update" -> App_update(h, c, tr)
      [] c.op = "App.delete" -> App_delete(h, c, tr)
      [] c.op = "AppImpl.delete_" -> AppImpl_delete_(h, c, tr)
      [] c.op = "App.createConsent" -> App_createConsent(h, c, tr)
      [] c.op = "App.listConsents" -> App_listConsents(h, c, tr)
      [] c.op = "App.deleteConsent" -> App_deleteConsent(h, c, tr)

\* An awaited operation: its request leaves when no other is in flight.
Send(op, self, client, args, req) ==
    /\ nCalls < MaxRequests
    /\ calls = {}
    /\ Len(heap) + Alloc(op) <= MaxHeap
    /\ calls' = {[cid |-> nCalls + 1, op |-> op, self |-> self, client |-> client,
                  args |-> args, req |-> req]}
    /\ nCalls' = nCalls + 1
    /\ last' = NoLast
    /\ UNCHANGED <<heap, streams, gateway, pager, examples>>

\* The gateway handles a request it has not answered yet.
Gateway_handle ==
    \E c \in calls :
        /\ \A r \in gateway.replies : r.cid # c.cid
        /\ LET g == Gateway_serve(gateway.apps, c.req)
           IN gateway' = [apps |-> g.apps,
                          replies |-> gateway.replies \cup {[cid |-> c.cid, resp |-> g.resp]}]
        /\ UNCHANGED <<resources, streams, pager, examples>>

\* An answer reaches the client and the operation's continuation runs.
Gateway_reply ==
    \E c \in calls : \E r \in gateway.replies :
        /\ r.cid = c.cid
        /\ LET k == Continue(heap, c, HttpSettle(c.req.method, r.resp))
           IN /\ heap' = k.heap
              /\ last' = [call |-> c, response |-> r.resp, out |-> k.out]
        /\ calls' = calls \ {c}
        /\ gateway' = [gateway EXCEPT !.replies = @ \ {r}]
        /\ UNCHANGED <<nCalls, streams, pager, examples>>

Scenario_AppImpl_create ==
    \E params \in ScenarioCreateParamsSet :
        Send("AppImpl.create", 0, "http1", [NoArgs EXCEPT !.params = params],
             AppImpl_create_req(params))

Scenario_AppImpl_get ==
    \E id \in AppIds :
        Send("AppImpl.get", 0, "http1", [NoArgs EXCEPT !.id = Str(id)],
             AppImpl_get_req(Str(id)))

Scenario_App_update ==
    \E self \in Objs, params \in AppUpdateParamsSet :
        Send("App.update", self, heap[self].client.s,
             [NoArgs EXCEPT !.id = heap[self].id, !.params = params],
             AppImpl_update_req(heap[self].id, params))

Scenario_App_delete ==
    \E self \in Objs :
        Send("App.delete", self, heap[self].client.s,
             [NoArgs EXCEPT !.id = heap[self].id],
             AppImpl_delete__req(heap[self].id))

NextScenario ==
    \/ Scenario_AppImpl_create
    \/ Scenario_AppImpl_get
    \/ Scenario_App_update
    \/ Scenario_App_delete
    \/ Gateway_handle
    \/ Gateway_reply

ScenarioSpec == Init /\ [][NextScenario]_vars

(* ----------------------- updates that overlap -------------------------- *)
\* app.update(params) called without awaiting the updates already in
\* flight on the same or another object.
Race_App_update ==
    \E self \in Objs, params \in AppUpdateParamsSet :
        /\ nCalls < MaxRequests
        /\ Cardinality(calls) < MaxRacing
        /\ Len(heap) + Reserved(calls) + Alloc("App.update") <= MaxHeap
        /\ calls' = calls \cup
             {[cid |-> nCalls + 1, op |-> "App.update", self |-> self,
               client |-> heap[self].client.s,
               args |-> [NoArgs EXCEPT !.id = heap[self].id, !.params = params],
               req |-> AppImpl_update_req(heap[self].id, params)]}
        /\ nCalls' = nCalls + 1
        /\ last' = NoLast
        /\ UNCHANGED <<heap, streams, gateway, pager, examples>>

NextRace ==
    \/ Scenario_AppImpl_create
    \/ Race_App_update
    \/ Gateway_handle
    \/ Gateway_reply

RaceSpec == Init /\ [][NextRace]_vars

(* ------------------------- a pagination loop --------------------------- *)
\* The gateway holds a collection and the caller picks a page size.
Pager_start ==
    \E collection \in SeqsUpTo(ListedApps, MaxItems), size \in 1..MaxPage :
        /\ pager.state = "IDLE"
        /\ pager' = [NoPager EXCEPT !.state = "START", !.collection = collection,
                                    !.pageSize = size]
        /\ UNCHANGED <<resources, streams, gateway, examples>>

\* await AppImpl.list(client, {pageSize, nextPageToken}): the request leaves.
Pager_list ==
    /\ pager.state \in {"START", "HAS_MORE"}
    /\ Send("AppImpl.list", 0, "http1", [NoArgs EXCEPT !.filter = Pager_filter(pager)],
            AppImpl_list_req(Pager_filter(pager)))

\* The gateway answers and the loop takes the page.
Pager_page ==
    \E c \in calls :
        LET resp == Listing_serve(pager.collection, c.req)
            k == AppImpl_list(heap, c, HttpSettle(c.req.method, resp))
        IN /\ pager.state \in {"START", "HAS_MORE"}
           /\ heap' = k.heap
           /\ calls' = calls \ {c}
           /\ last' = [call |-> c, response |-> resp, out |-> k.out]
           /\ pager' = Pager_onPage(pager, resp, k.out)
           /\ UNCHANGED <<nCalls, streams, gateway, examples>>

NextPager == Pager_start \/ Pager_list \/ Pager_page

PaginationSpec == Init /\ [][NextPager]_vars

(* ------------------- constructing Apps from snapshots ------------------ *)
\* new App(client, pod) on a snapshot pod.
RoundTrip_construct ==
    \E client \in Clients, pod \in Snapshots :
        /\ Len(heap) < MaxObjs
        /\ heap' = Append(heap, App(client, pod))
        /\ last' = [call |-> [NoCall EXCEPT !.op = "new App", !.client = client],
                    response |-> [status |-> 200, body |-> pod],
                    out |-> ResolvedApp(Len(heap) + 1)]
        /\ UNCHANGED <<calls, nCalls, streams, gateway, pager, examples>>

RoundTripSpec == Init /\ [][RoundTrip_construct]_vars

(* ----------------------- translating filters --------------------------- *)
\* The client translates a filter into the parameters of a listing request.
Codec_translate ==
    \E filter \in CodecFilters :
        /\ codec.phase # "translated"
        /\ codec' = [phase |-> "translated", filter |-> filter,
                     query |-> Codec_toQuery(filter), parsed |-> <<>>]
        /\ UNCHANGED <<resources, streams, gateway, pager, job>>

\* The parameters are read back into a filter.
Codec_parse ==
    /\ codec.phase = "translated"
    /\ codec' = [codec EXCEPT !.phase = "parsed", !.parsed = parseQuery(codec.query)]
    /\ UNCHANGED <<resources, streams, gateway, pager, job>>

NextCodec == Codec_translate \/ Codec_parse

CodecSpec == Init /\ [][NextCodec]_vars

(* ------------------ updates with any params that compile --------------- *)
\* The values the compiler accepts as AppUpdateParams: the writable fields alone,
\* or an object that carries them among others, as the spread of a snapshot
\* or of an App with the changes ({...base, ...changes}) does.
PassableUpdateParams(base) ==
    AppUpdateParamsSet \cup {ObjectAssign(base, changes) : changes \in AppUpdateParamsSet}

Put_AppImpl_update ==
    \E client \in Clients, id \in AppIds, pod \in PODApps :
        \E params \in PassableUpdateParams(pod) :
            Issue("AppImpl.update", 0, client,
                  [NoArgs EXCEPT !.id = Str(id), !.params = params],
                  AppImpl_update_req(Str(id), params))

Put_App_update ==
    \E self \in Objs : \E params \in PassableUpdateParams(heap[self]) :
        Issue("App.update", self, heap[self].client.s,
              [NoArgs EXCEPT !.id = heap[self].id, !.params = params],
              AppImpl_update_req(heap[self].id, params))

NextPut ==
    \/ Call_AppImpl_get
    \/ Settle_AppImpl_get
    \/ Put_AppImpl_update
    \/ Settle_AppImpl_update
    \/ Put_App_update
    \/ Settle_App_update

PutSpec == Init /\ [][NextPut]_vars

(* ------------------ objects whose resource is deleted ------------------ *)
\* parcel.deleteApp(id): the resource is deleted by id, whatever objects
\* represent it.
Stale_AppImpl_delete_ ==
    \E id \in AppIds :
        Send("AppImpl.delete_", 0, "http1", [NoArgs EXCEPT !.id = Str(id)],
             AppImpl_delete__req(Str(id)))

NextStale ==
    \/ Scenario_AppImpl_create
    \/ Scenario_AppImpl_get
    \/ Scenario_App_update
    \/ Scenario_App_delete
    \/ Stale_AppImpl_delete_
    \/ Gateway_handle
    \/ Gateway_reply

StaleSpec == Init /\ [][NextStale]_vars

(* ------------- the operations that hand a transport on ----------------- *)
\* The functions that build Apps on the transport they were given and the
\* methods through which an App uses the transport it holds.
NextTransport ==
    \/ Call_AppImpl_create
    \/ Settle_AppImpl_create
    \/ Call_AppImpl_get
    \/ Settle_AppImpl_get
    \/ Call_AppImpl_list
    \/ Settle_AppImpl_list
    \/ Call_AppImpl_update
    \/ Settle_AppImpl_update
    \/ Call_App_update
    \/ Settle_App_update
    \/ Call_App_delete
    \/ Settle_App_delete

TransportSpec == Init /\ [][NextTransport]_vars

(* ------------- methods of an object called one after another ---------- *)
\* What may come back for the request of a call; a GET of an app is
\* answered with the app asked for, a PUT with whatever id the gateway
\* gives the updated app.
AnswersFor(c) ==
    CASE c.req.method = "DELETE" -> DeleteAnswers
      [] c.op = "AppImpl.get" ->
           Answers(c.req.method, {p \in PODApps : p.id = c.args.id})
      [] c.op = "App.createConsent" -> Answers(c.req.method, PODConsents)
      [] c.op = "App.listConsents" -> Answers(c.req.method, PagesOf(PODConsents))
      [] OTHER -> Answers(c.req.method, PODApps)

Address_App_createConsent ==
    \E self \in Objs, params \in ConsentCreateParamsSet :
        Send("App.createConsent", self, heap[self].client.s,
             [NoArgs EXCEPT !.id = heap[self].id, !.params = params],
             ConsentImpl_create_req(heap[self].id, params))

Address_App_listConsents ==
    \E self \in Objs :
        Send("App.listConsents", self, heap[self].client.s,
             [NoArgs EXCEPT !.id = heap[self].id],
             ConsentImpl_list_req(heap[self].id))

Address_App_deleteConsent ==
    \E self \in Objs, consentId \in ConsentIds :
        Send("App.deleteConsent", self, heap[self].client.s,
             [NoArgs EXCEPT !.id = heap[self].id, !.consentId = Str(consentId)],
             ConsentImpl_delete__req(heap[self].id, Str(consentId)))

\* The awaited call settles on an answer of the gateway's choosing.
Address_settle ==
    \E c \in calls : \E resp \in AnswersFor(c) :
        Finish(c, resp, Continue(heap, c, HttpSettle(c.req.method, resp)))

NextAddress ==
    \/ Scenario_AppImpl_get
    \/ Scenario_App_update
    \/ Scenario_App_delete
    \/ Address_App_createConsent
    \/ Address_App_listConsents
    \/ Address_App_deleteConsent
    \/ Address_settle

AddressSpec == Init /\ [][NextAddress]_vars

(* ------------------------ running the example -------------------------- *)
\* parcelAcme.submitJob(jobSpec): the request leaves.
Job_submit ==
    /\ job.pc = "idle"
    /\ job' = [job EXCEPT !.pc = "submitting"]
    /\ UNCHANGED <<resources, streams, gateway, pager, codec>>

\* The submission is answered; on success the loop is entered and its
\* first timer set.
Job_submitted ==
    \E ok \in BOOLEAN :
        /\ job.pc = "submitting"
        /\ job' = IF ok THEN [job EXCEPT !.pc = "sleeping"]
                  ELSE [job EXCEPT !.pc = "failed", !.error = "RequestError"]
        /\ UNCHANGED <<resources, streams, gateway, pager, codec>>

\* await new Promise((resolve) => setTimeout(resolve, 5000)): the timer fires.
Job_timeout ==
    /\ job.pc = "sleeping"
    /\ job' = [job EXCEPT !.pc = "woken", !.waits = @ + 1]
    /\ UNCHANGED <<resources, streams, gateway, pager, codec>>

\* parcelAcme.getJobStatus(jobId): the request leaves.
Job_getJobStatus ==
    /\ job.pc = "woken"
    /\ job.polls < MaxPolls
    /\ job' = [job EXCEPT !.pc = "polling", !.polls = @ + 1, !.inFlight = @ + 1]
    /\ UNCHANGED <<resources, streams, gateway, pager, codec>>

\* The poll is answered.
Job_status ==
    \E answer \in JobAnswers(job.polls) :
        /\ job.pc = "polling"
        /\ job' = Job_onStatus(job, answer)
        /\ UNCHANGED <<resources, streams, gateway, pager, codec>>

\* The loop's condition is evaluated: the next timer is set, or the loop is
\* left and the job's outcome logged.
Job_while ==
    /\ job.pc = "test"
    /\ job' = [job EXCEPT !.pc = IF Job_continues(job.status)
                                 THEN "sleeping" ELSE "finished"]
    /\ UNCHANGED <<resources, streams, gateway, pager, codec>>

\* The output document is asked for.
Job_downloadOutput ==
    /\ job.pc = "finished"
    /\ job' = Job_output(job)
    /\ UNCHANGED <<resources, streams, gateway, pager, codec>>

\* await outputDownload.pipeTo(outputSaver) and the reading of the file.
Job_piped ==
    \E ok \in BOOLEAN :
        /\ job.pc = "downloading"
        /\ job' = IF ok THEN [job EXCEPT !.pc = "done"]
                  ELSE [job EXCEPT !.pc = "failed", !.error = "RequestError"]
        /\ UNCHANGED <<resources, streams, gateway, pager, codec>>

NextJob ==
    \/ Job_submit
    \/ Job_submitted
    \/ Job_timeout
    \/ Job_getJobStatus
    \/ Job_status
    \/ Job_while
    \/ Job_downloadOutput
    \/ Job_piped

\* Every step of the script that can be taken is taken in the end: timers
\* fire and awaited requests settle.
JobSpec == Init /\ [][NextJob]_vars /\ WF_vars(NextJob)

(* ------------------------------ claims --------------------------------- *)
Settled == last.call.op # "none"
Resolved == last.out.state = "resolved"
RejectedOut == last.out.state = "rejected"

DeleteOps == {"AppImpl.delete_", "App.delete", "App.deleteConsent"}
UpdateOps == {"AppImpl.update", "App.update"}

\* Every data field of obj has the value the snapshot body gives it, the
\* timestamp compared as the instant it denotes.
SameAsBody(obj, body) ==
    \A f \in AppFields :
        IF f = "createdAt"
        THEN obj[f].t = "Date" /\ obj[f].n = DateParse(Get(body, f).s)
        ELSE obj[f] = Get(body, f)

\* C1: a delete (AppImpl.delete_, App.delete, App.deleteConsent) resolves
\* exactly when the answer's status is 204; on every other status, 200
\* included, it rejects with an error carrying that status.
C1_DeleteOnly204 ==
    last.call.op \in DeleteOps =>
        /\ Resolved <=> last.response.status = 204
        /\ last.response.status # 204 =>
              RejectedOut /\ last.out.error.status = last.response.status

\* A delete through an App object answered 200 with a body has failed.
C1_Witness ==
    /\ last.call.op = "App.deleteConsent"
    /\ last.response.status = 200
    /\ last.response.body # NoBody
    /\ RejectedOut

\* C2: a successful App.update resolves to the object it was called on, an
\* object that existed before, and that object then shows the answer's
\* values; a successful AppImpl.update resolves to an object that did not
\* exist before and leaves every existing object as it was.
C2_UpdateIdentity ==
    [][/\ (last'.call.op = "App.update" /\ last'.out.state = "resolved") =>
            /\ last'.out.ref = last'.call.self
            /\ last'.out.ref \in 1..Len(heap)
            /\ heap'[last'.call.self].published = Get(last'.response.body, "published")
            /\ heap'[last'.call.self].name = Get(last'.response.body, "name")
       /\ (last'.call.op = "AppImpl.update" /\ last'.out.state = "resolved") =>
            /\ last'.out.ref \notin 1..Len(heap)
            /\ last'.out.ref \in 1..Len(heap')
            /\ \A o \in 1..Len(heap) : heap'[o] = heap[o]]_vars

\* An App.update resolved to its own object, which now carries the new name.
C2_Witness ==
    /\ last.call.op = "App.update"
    /\ Resolved
    /\ last.out.ref = last.call.self
    /\ heap[last.call.self].name = Str("new name")
    /\ heap[last.call.self].published = Bool(TRUE)

\* C3: after a successful update every data field of the resulting App is
\* the field of the answer's body, whatever the params and the earlier
\* values; an optional field the body omits is undefined afterwards.
C3_UpdateTrustsResponse ==
    (last.call.op \in UpdateOps /\ Resolved) =>
        /\ SameAsBody(heap[last.out.ref], last.response.body)
        /\ \A f \in OptionalPodFields :
              f \notin DOMAIN last.response.body => heap[last.out.ref][f] = Undefined

\* An App.update whose params set category was answered without one.
C3_Witness ==
    /\ last.call.op = "App.update"
    /\ Resolved
    /\ "category" \in DOMAIN last.call.args.params
    /\ "category" \notin DOMAIN last.response.body
    /\ heap[last.call.self].category = Undefined

\* C4: for a list answer carrying N results and a cursor, the page has N
\* distinct objects, the i-th built from the i-th result, and the cursor is
\* the string the server sent.
C4_ListPreservesPage ==
    (last.call.op = "AppImpl.list" /\ Resolved) =>
        LET body == last.response.body
            refs == last.out.results
        IN /\ Len(refs) = Len(body.results)
           /\ \A i \in 1..Len(refs) :
                 /\ refs[i] \in 1..Len(heap)
                 /\ SameAsBody(heap[refs[i]], body.results[i])
           /\ \A i, j \in 1..Len(refs) : i # j => refs[i] # refs[j]
           /\ "nextPageToken" \in DOMAIN body =>
                 last.out.nextPageToken = body.nextPageToken

\* A page of two different apps with a cursor was listed.
C4_Witness ==
    /\ last.call.op = "AppImpl.list"
    /\ Resolved
    /\ Len(last.out.results) = 2
    /\ heap[last.out.results[1]].id = Str("a2")
    /\ heap[last.out.results[2]].id = Str("a1")
    /\ last.out.nextPageToken = Str("tok1")

\* C5: a list answer without results gives an empty results sequence, and
\* the page's cursor is absent exactly when the answer has none and is the
\* answer's cursor otherwise, whatever the number of results.
C5_CursorIndependentOfCount ==
    (last.call.op \in {"AppImpl.list", "App.listConsents"} /\ Resolved) =>
        LET body == last.response.body
        IN /\ Len(body.results) = 0 =>
                 last.out.results = <<>> /\ last.out.values = <<>>
           /\ last.out.nextPageToken = Undefined <=> "nextPageToken" \notin DOMAIN body
           /\ "nextPageToken" \in DOMAIN body =>
                 last.out.nextPageToken = body.nextPageToken

\* An empty page that still carries a cursor was listed.
C5_Witness ==
    /\ last.call.op = "AppImpl.list"
    /\ Resolved
    /\ last.response.body.results = <<>>
    /\ last.out.results = <<>>
    /\ last.out.nextPageToken = Str("tok1")

\* C6: a get answered 404 rejects with an error carrying status 404, a get
\* answered by another status outside 2xx rejects with a request error of
\* that status, and in neither case is an App constructed or returned.
C6_GetFailure ==
    [][(last'.call.op = "AppImpl.get"
        /\ (last'.response.status < 200 \/ last'.response.status >= 300)) =>
            /\ last'.out.state = "rejected"
            /\ last'.out.error.name = "RequestError"
            /\ last'.out.error.status = last'.response.status
            /\ last'.out.ref = 0
            /\ heap' = heap]_vars

\* A get was answered 404 and rejected with that status.
C6_Witness ==
    /\ last.call.op = "AppImpl.get"
    /\ last.response.status = 404
    /\ RejectedOut
    /\ last.out.error.status = 404

\* C7: whenever the transport fails a request, the operation rejects with
\* the transport's error, which carries the answer's status, and resolves
\* to nothing.
C7_ErrorsPropagate ==
    (Settled /\ ~HttpSettle(last.call.req.method, last.response).ok) =>
        /\ last.out = Rejected(HttpSettle(last.call.req.method, last.response).error)
        /\ last.out.error.status = last.response.status

\* An update through an App object was answered 500 and rejected with it.
C7_Witness ==
    /\ last.call.op = "App.update"
    /\ last.response.status = 500
    /\ RejectedOut
    /\ last.out.error.status = 500

\* C8: create POSTs the given params to the collection endpoint, and the
\* App it resolves to takes every field from the answer's body, also the
\* fields the params gave another value.
C8_CreateFromResponse ==
    last.call.op = "AppImpl.create" =>
        /\ last.call.req.method = "POST"
        /\ last.call.req.endpoint = "apps"
        /\ last.call.req.body = last.call.args.params
        /\ Resolved => SameAsBody(heap[last.out.ref], last.response.body)

\* An app created with a name and published=true came back under another
\* name and unpublished.
C8_Witness ==
    /\ last.call.op = "AppImpl.create"
    /\ Resolved
    /\ last.call.args.params.name = Str("my app")
    /\ last.call.args.params.published = Bool(TRUE)
    /\ heap[last.out.ref].name = Str("test app")
    /\ heap[last.out.ref].published = Bool(FALSE)
    /\ heap[last.out.ref].owner = Str("i1")

Hyphen == "-"

\* The characters of a query name without its hyphens.
RECURSIVE Unhyphenated(_)
Unhyphenated(name) ==
    IF name = <<>> THEN <<>>
    ELSE (IF Head(name) = Hyphen THEN <<>> ELSE <<Head(name)>>)
         \o Unhyphenated(Tail(name))

\* name is key in lower-case-hyphenated form.
IsParamCaseOf(name, key) ==
    /\ \A i \in 1..Len(name) : ~IsUpper(name[i])
    /\ Unhyphenated(name) = [i \in 1..Len(key) |-> ToLower(key[i])]
    /\ \A i \in 1..Len(key) : IsUpper(key[i]) => Len(name) > Len(key)

\* The query text a scalar filter value is sent as.
SentAs(v, text) ==
    /\ v.t = "string" => text = v.s
    /\ v = Num(1) => text = "1"
    /\ v = Num(2) => text = "2"

ListCalls == {c \in calls \cup {last.call} : c.op = "AppImpl.list"}

\* C9: the query of a list request has one parameter per filter key, in
\* the filter's order, named by the key in lower-case-hyphenated form and
\* holding the key's scalar value; pageSize goes as page-size and
\* nextPageToken as next-page-token.
C9_FilterToQuery ==
    \A c \in ListCalls :
        LET filter == c.args.filter
            query == c.req.query
        IN /\ Len(query) = Len(filter)
           /\ \A i \in 1..Len(filter) :
                 /\ IsParamCaseOf(query[i][1], filter[i][1])
                 /\ SentAs(filter[i][2], query[i][2])
                 /\ filter[i][1] = K_pageSize =>
                       query[i][1] = <<"p", "a", "g", "e", "-", "s", "i", "z", "e">>
                 /\ filter[i][1] = K_nextPageToken =>
                       query[i][1] = <<"n", "e", "x", "t", "-", "p", "a", "g", "e",
                                       "-", "t", "o", "k", "e", "n">>

\* A list request with a page size and a cursor is on its way.
C9_Witness ==
    \E c \in calls :
        /\ c.op = "AppImpl.list"
        /\ \E i \in 1..Len(c.args.filter) : c.args.filter[i][1] = K_pageSize
        /\ \E i \in 1..Len(c.req.query) : c.req.query[i][2] = "tok1"

\* The tags with a comma before each one but the first, built from the end.
RECURSIVE CommaSeparated(_)
CommaSeparated(xs) ==
    IF xs = <<>> THEN ""
    ELSE IF Len(xs) = 1 THEN xs[1]
    ELSE CommaSeparated(SubSeq(xs, 1, Len(xs) - 1)) \o "," \o xs[Len(xs)]

DatasetListCalls == {c \in calls \cup {last.call} : c.op = "DatasetImpl.list"}

\* C10: a dataset list filter whose tags matcher is {all: [t1, ..., tn]}
\* goes out as exactly one query parameter named tags, whose value is
\* "all:" followed by the tags joined by "," in their order ("all:tag1,tag2"
\* for tag1, tag2), never as the text of the matcher object.
C10_TagsAllEncoding ==
    \A c \in DatasetListCalls :
        \A i \in 1..Len(c.args.filter) :
            (c.args.filter[i][1] = K_tags /\ c.args.filter[i][2].s = "all") =>
                LET tags == c.args.filter[i][2].l
                    sent == {j \in 1..Len(c.req.query) : c.req.query[j][1] = K_tags}
                IN /\ Cardinality(sent) = 1
                   /\ \A j \in sent :
                         /\ c.req.query[j][2] = "all:" \o CommaSeparated(tags)
                         /\ c.req.query[j][2] # "[object Object]"
                         /\ tags = <<"tag1", "tag2">> =>
                               c.req.query[j][2] = "all:tag1,tag2"

\* A listing filtered by {all: [tag1, tag2]} next to pagination controls is
\* on its way with tags=all:tag1,tag2.
C10_Witness ==
    \E c \in calls :
        /\ c.op = "DatasetImpl.list"
        /\ Len(c.args.filter) = 4
        /\ c.args.filter[2] = <<K_tags, Matcher("all", <<"tag1", "tag2">>)>>
        /\ c.req.query[2] = <<K_tags, "all:tag1,tag2">>

\* C11: when the answer to a download is not 2xx, pipeTo fails with an
\* error carrying that status, and at no moment, before the answer or after
\* the failure, has a chunk been handed to the sink or collected by it.
C11_DownloadFailsBeforeBytes ==
    /\ download.phase \in {"idle", "requested"} =>
          (download.pos = 0 /\ sink.bufs = <<>>)
    /\ (download.phase \notin {"idle", "requested"}
        /\ ~(download.status >= 200 /\ download.status < 300)) =>
          /\ download.phase = "done"
          /\ download.out.state = "rejected"
          /\ download.out.error.status = download.status
          /\ download.pos = 0
          /\ sink.bufs = <<>>

\* A download answered 500 with a body of its own has failed with status
\* 500 and the sink is empty.
C11_Witness ==
    /\ download.phase = "done"
    /\ download.status = 500
    /\ download.out = Rejected(ErrorFor(500))
    /\ sink.bufs = <<>>

\* C12: when the sink reports a failure for a write, pipeTo fails with the
\* very error the sink reported, name and message included, and the stream
\* is aborted: the failed write is the last chunk handed to the sink.
C12_SinkErrorVerbatim ==
    sink.options # NoError =>
        /\ download.pos <= 1
        /\ sink.bufs = <<>>
        /\ (download.phase = "done" /\ download.pos = 1) =>
              /\ download.out = Rejected(sink.options)
              /\ download.out.error.message = sink.options.message
              /\ download.cbs = <<>>
        /\ download.out.state = "resolved" => download.body = <<>>

\* A two-chunk download into a sink that fails with "disk full" has failed
\* with that error after the first write.
C12_Witness ==
    /\ download.phase = "done"
    /\ Len(download.body) = 2
    /\ download.pos = 1
    /\ download.out = Rejected(SinkError("disk full"))

\* C13: on a successful download, by id or through dataset.download(), the
\* sink collects the chunks of the response body in order, none lost or
\* duplicated; a chunk is written only once the previous write has been
\* acknowledged, and pipeTo resolves only after the last chunk was written
\* and acknowledged.
C13_DownloadDeliversBody ==
    /\ Len(download.cbs) <= 1
    /\ (sink.options = NoError /\ download.status = 200) =>
          sink.bufs = SubSeq(download.body, 1, download.pos)
    /\ download.out.state = "resolved" =>
          /\ download.status = 200
          /\ download.pos = Len(download.body)
          /\ download.cbs = <<>>
          /\ sink.bufs = download.body

\* dataset.download().pipeTo(collector) has resolved with both chunks of
\* the body collected in order.
C13_Witness ==
    /\ download.via = "Dataset.download"
    /\ download.out = ResolvedVoid
    /\ download.body = <<"fixture ", "data">>
    /\ sink.bufs = <<"fixture ", "data">>

\* The parts of the form the upload has sent.
UploadedParts == IF upload.phase = "idle" THEN <<>> ELSE upload.req.body.parts

PartsNamed(name) == {i \in 1..Len(UploadedParts) : UploadedParts[i].name = name}

\* The multipart request of an upload: one request, exactly one data part
\* holding the payload unchanged, a metadata part exactly when params were
\* supplied, and the Dataset of a resolved handle built from the answer.
UploadFraming ==
    upload.phase # "idle" =>
        /\ upload.sent = 1
        /\ upload.req.method = "POST" /\ upload.req.endpoint = "datasets"
        /\ Cardinality(PartsNamed("data")) = 1
        /\ \A i \in PartsNamed("data") :
              /\ UploadedParts[i].content = upload.data
              /\ UploadedParts[i].contentType = "application/octet-stream"
        /\ Cardinality(PartsNamed("metadata")) = IF upload.params = NoBody THEN 0 ELSE 1
        /\ Len(UploadedParts) =
              Cardinality(PartsNamed("data")) + Cardinality(PartsNamed("metadata"))
        /\ upload.out.state = "resolved" =>
              upload.out.values = <<Dataset(upload.client, upload.response.body)>>

C15_UploadAllOrNothing ==
    (upload.phase = "done"
     /\ ~(upload.response.status >= 200 /\ upload.response.status < 300)) =>
        /\ upload.out.state = "rejected"
        /\ upload.out.values = <<>>
        /\ upload.out.error.status = upload.response.status
        /\ upload.sent = 1

\* An upload answered 500 has failed with that status.
C15_Witness ==
    /\ upload.phase = "done"
    /\ upload.response.status = 500
    /\ upload.out = Rejected(ErrorFor(500))
    /\ upload.sent = 1

\* C16: against a gateway that stores what it is sent, an update with
\* published=true leaves both the updated object and the stored app
\* published; a get builds its object from the stored app when there is one
\* and fails with a request error of status 404 when there is none; and
\* once a delete has succeeded the app is no longer stored. So in the
\* sequence create (published=false), update (published=true), get, delete,
\* get, the first get shows published=true and the second fails with 404.
C16_Scenario ==
    /\ (last.call.op = "App.update" /\ last.call.args.params = [published |-> Bool(TRUE)]
        /\ last.response.status = 200) =>
          /\ Resolved
          /\ last.out.ref = last.call.self
          /\ heap[last.call.self].published = Bool(TRUE)
          /\ \A p \in Stored(gateway.apps, last.call.args.id) : p.published = Bool(TRUE)
    /\ last.call.op = "AppImpl.get" =>
          IF Stored(gateway.apps, last.call.args.id) # {}
          THEN /\ Resolved
               /\ \A p \in Stored(gateway.apps, last.call.args.id) :
                     /\ SameAsBody(heap[last.out.ref], p)
                     /\ heap[last.out.ref].published = p.published
          ELSE /\ RejectedOut
               /\ last.out.error = [name |-> "RequestError", status |-> 404]
    /\ (last.call.op = "App.delete" /\ Resolved) =>
          Stored(gateway.apps, last.call.args.id) = {}

\* The fifth request of the scenario, the get after the delete, has failed
\* with 404; the created object, updated in place, and the object of the
\* get before the delete both show published=true.
C16_Witness ==
    /\ nCalls = 5
    /\ Len(heap) = 3
    /\ gateway.apps = {}
    /\ last.call.op = "AppImpl.get"
    /\ last.out = Rejected([name |-> "RequestError", status |-> 404])
    /\ heap[1].published = Bool(TRUE) /\ heap[1].name = Str("my app")
    /\ heap[3].published = Bool(TRUE)

\* The value v, read from an object or from its plain data, is the value
\* the snapshot gives the field f: timestamps are compared as instants.
SameValue(f, v, wire) ==
    IF f = "createdAt"
    THEN \/ v.t = "Date" /\ v.n = DateParse(wire.s) /\ v.n # NaN
         \/ v.t = "string" /\ DateParse(v.s) = DateParse(wire.s)
    ELSE v = wire

\* C17: the object constructed from a snapshot S has, for each field of S,
\* the value S gives it (createdAt as the instant it denotes), and its plain
\* data has every field of S again; fields S omits included and the
\* fixture's homepage and logo included.
C17_RoundTrip ==
    last.call.op = "new App" =>
        LET S == last.response.body
            obj == heap[last.out.ref]
            back == toPlainData(obj)
        IN \A f \in DOMAIN S :
              /\ f \in DOMAIN obj /\ SameValue(f, obj[f], S[f])
              /\ f \in DOMAIN back /\ SameValue(f, back[f], S[f])

\* C18: every invocation of create, get, list, update or delete, by id or
\* through an object's method, hands exactly one request to the transport,
\* whether it succeeds or fails: an invocation puts one request in flight,
\* an outcome arises only by consuming the answer to the invocation's
\* request, and that request is then gone, never sent again.
C18_OneRequestPerInvocation ==
    [][/\ nCalls' # nCalls =>
             /\ nCalls' = nCalls + 1
             /\ \E c \in calls' \ calls :
                   /\ calls' = calls \cup {c}
                   /\ c.cid = nCalls'
                   /\ c.req # NoReq
       /\ (last' # last /\ last'.call.op # "none") =>
             /\ nCalls' = nCalls
             /\ last'.call \in calls
             /\ calls' = calls \ {last'.call}
             /\ last'.response # NoAnswer
             /\ last'.out.state \in {"resolved", "rejected"}
       /\ (nCalls' = nCalls /\ calls' # calls) =>
             (last'.call \in calls /\ calls' = calls \ {last'.call})]_vars

\* A second listing, issued after an earlier operation had settled, has
\* failed: its own request was sent and answered.
C18_Witness ==
    /\ nCalls = 2
    /\ calls = {}
    /\ last.call.op = "AppImpl.list"
    /\ last.call.cid = 2
    /\ last.out.state = "rejected"

\* C19: in a pagination loop, the first request carries no cursor and every
\* later request carries exactly the cursor the gateway put on the page
\* before it; the loop is in HAS_MORE exactly while the last page carried a
\* cursor and in EXHAUSTED once a page carried none; and when the loop is
\* exhausted the objects received are the gateway's collection in its order.
C19_PaginationLoop ==
    /\ \A c \in calls :
          QueryValues(c.req.query, paramCase(K_nextPageToken)) =
              IF pager.issued = Undefined THEN {} ELSE {pager.issued.s}
    /\ pager.state = "HAS_MORE" <=> pager.issued # Undefined
    /\ pager.state = "EXHAUSTED" <=>
          (last.out.state = "resolved" /\ pager.issued = Undefined)
    /\ pager.state # "FAILED"
    /\ pager.state \in {"HAS_MORE", "EXHAUSTED"} =>
          /\ Len(pager.received) <= Len(pager.collection)
          /\ \A i \in 1..Len(pager.received) :
                SameAsBody(heap[pager.received[i]], pager.collection[i])
    /\ pager.state = "EXHAUSTED" => Len(pager.received) = Len(pager.collection)

\* A collection of three apps has been paged through one at a time: three
\* requests, the last two carrying tok1 and tok2, and the loop is exhausted.
C19_Witness ==
    /\ pager.state = "EXHAUSTED"
    /\ Len(pager.collection) = 3
    /\ pager.pageSize = 1
    /\ nCalls = 3
    /\ Len(pager.received) = 3
    /\ QueryValues(last.call.req.query, paramCase(K_nextPageToken)) = {"tok2"}

\* C20: when updates of the same App object overlap, each answer that
\* arrives overwrites the object, so once all have completed the object's
\* fields are those of the answer that arrived last, whatever the order in
\* which the requests were issued or applied by the gateway.
C20_LastResponseWins ==
    (last.call.op = "App.update" /\ last.out.state = "resolved") =>
        /\ last.out.ref = last.call.self
        /\ SameAsBody(heap[last.call.self], last.response.body)

\* Two overlapping updates of one object have both completed; the answer of
\* the update issued and applied first arrived last, and the object now
\* differs from the app the gateway stores.
C20_Witness ==
    /\ calls = {}
    /\ nCalls = 3
    /\ last.call.op = "App.update"
    /\ last.call.cid = 2
    /\ last.call.self = 1
    /\ last.out.state = "resolved"
    /\ Len(heap) = 3
    /\ \E p \in Stored(gateway.apps, heap[1].id) :
          /\ p.name = Str("my name") /\ p.published = Bool(TRUE)
          /\ heap[1].name = Str("my app") /\ heap[1].published = Bool(TRUE)

\* The tags of a filter, if it has a tags matcher.
TagsOf(filter) ==
    IF \E i \in 1..Len(filter) : filter[i][1] = K_tags
    THEN filter[CHOOSE i \in 1..Len(filter) : filter[i][1] = K_tags][2].l
    ELSE <<>>

HasChar(text, c) == \E i \in 1..Len(text) : text[i] = c

NeverWritable == {"id", "createdAt", "participants", "trusted"}

\* C23: the body of the PUT issued by App.update or AppImpl.update holds
\* none of id, createdAt, participants and trusted, whatever params value
\* the caller passes.
C23_PutBodyWritableOnly ==
    \A c \in calls :
        c.req.method = "PUT" => (DOMAIN c.req.body) \cap NeverWritable = {}

\* The consent with the given id is in the local collection obj.consents.
InConsents(obj, id) ==
    /\ "consents" \in DOMAIN obj
    /\ \E i \in 1..Len(obj.consents.l) : obj.consents.l[i].id = id

\* C24: after app.createConsent succeeds the new consent is in this.consents
\* of that App object, and after app.deleteConsent(consentId) succeeds that
\* consent is not in it.
C24_ConsentsInStep ==
    /\ (last.call.op = "App.createConsent" /\ last.out.state = "resolved")
       => InConsents(heap[last.call.self], last.out.values[1].id)
    /\ (last.call.op = "App.deleteConsent" /\ last.out.state = "resolved")
       => ~InConsents(heap[last.call.self], last.call.args.consentId)

\* C25: the step in which an App.update fails leaves every object as it
\* was, and so does the step in which its request leaves; the step in which
\* it succeeds writes every field of the object from the response at once.
C25_FailedUpdateChangesNothing ==
    [][/\ (\E c \in calls' \ calls : c.op = "App.update") => heap' = heap
       /\ \A c \in calls \ calls' :
            (c.op = "App.update" /\ last'.call = c)
            => IF last'.out.state = "rejected"
               THEN heap' = heap
               ELSE \A f \in AppFields :
                      heap'[c.self][f] = App(c.client, last'.response.body)[f]]_vars

C25_Witness ==
    /\ last.call.op = "App.update"
    /\ last.out.state = "rejected"
    /\ last.response.status \in {404, 500}
    /\ Get(last.call.args.params, "name") = Str("my name")
    /\ heap[last.call.self].name = Str("test app")
    /\ heap[last.call.self].category = Str("testing")

\* C26: the step in which a delete settles, the object's own or one by id,
\* leaves every object as it was; and a method of an object, stale or not,
\* settles on the answer the gateway gave to the request it sent to the
\* object's item endpoint: it fails exactly when that answer's status is
\* not the expected one, with that status, leaving the objects as they were.
C26_DeleteLeavesObjectsStale ==
    [][/\ (last'.call.op \in DeleteOps /\ calls' # calls) => heap' = heap
       /\ \A c \in calls \ calls' :
            (c.self # 0 /\ last'.call = c)
            => /\ c.req.endpoint = endpointForId(c.args.id)
               /\ \E r \in gateway.replies : r.cid = c.cid /\ r.resp = last'.response
               /\ last'.out.state = "rejected"
                    <=> last'.response.status # Expected(c.req.method)
               /\ last'.out.state = "rejected"
                    => /\ last'.out.error = ErrorFor(last'.response.status)
                       /\ heap' = heap]_vars

C26_Witness ==
    /\ gateway.apps = {}
    /\ nCalls = 3
    /\ last.call.op = "App.update"
    /\ last.call.self = 1
    /\ last.call.req = AppImpl_update_req(Str("a1"), last.call.args.params)
    /\ last.out = Rejected([name |-> "RequestError", status |-> 404])
    /\ heap[1].id = Str("a1")
    /\ heap[1].name = Str("my app")

\* C27: no step changes the transport of an object that exists, updates in
\* place included; the objects a create, get, list or update builds, and
\* the object it resolves to, hold the transport passed to that call; and a
\* request an object issues leaves through the transport the object holds.
C27_TransportInjectedAndKept ==
    [][/\ \A o \in 1..Len(heap) : heap'[o].client = heap[o].client
       /\ \A o \in (Len(heap) + 1)..Len(heap') :
            heap'[o].client = ClientRef(last'.call.client)
       /\ \A c \in calls \ calls' :
            (last'.call = c /\ last'.out.kind = "App")
            => heap'[last'.out.ref].client = ClientRef(c.client)
       /\ \A c \in calls' \ calls :
            c.self # 0 => c.client = heap[c.self].client.s]_vars

C27_Witness ==
    /\ last.call.op = "App.update"
    /\ last.out.state = "resolved"
    /\ last.out.ref = last.call.self
    /\ last.call.client = "http2"
    /\ heap[last.call.self].client = ClientRef("http2")
    /\ heap[last.call.self].name = Str("new name")

\* The request a method of an object holding the id app is to issue.
AddressOf(op, app, consentId) ==
    CASE op = "App.update" -> <<"PUT", "apps/" \o app.s>>
      [] op = "App.delete" -> <<"DELETE", "apps/" \o app.s>>
      [] op = "App.createConsent" -> <<"POST", "apps/" \o app.s \o "/consents">>
      [] op = "App.listConsents" -> <<"GET", "apps/" \o app.s \o "/consents">>
      [] op = "App.deleteConsent" ->
           <<"DELETE", "apps/" \o app.s \o "/consents/" \o consentId.s>>

\* C28: the request a method of an App issues addresses the id the object
\* holds in the step of the invocation; and the step in which an update
\* succeeds leaves the object holding the id of the response, which is
\* therefore the id its later calls address.
C28_MethodsAddressHeldId ==
    [][/\ \A c \in calls' \ calls :
            c.self # 0
            => <<c.req.method, c.req.endpoint>>
                 = AddressOf(c.op, heap[c.self].id, c.args.consentId)
       /\ \A c \in calls \ calls' :
            (c.op = "App.update" /\ last'.call = c /\ last'.out.state = "resolved")
            => heap'[c.self].id = Get(last'.response.body, "id")]_vars

\* An object retrieved as a1 was updated, the answer carried the id a2, and
\* the consent the object creates next is posted under apps/a2.
C28_Witness ==
    /\ nCalls = 3
    /\ Len(heap) >= 1
    /\ heap[1].id = Str("a2")
    /\ \E c \in calls :
         /\ c.op = "App.createConsent"
         /\ c.self = 1
         /\ c.req.method = "POST"
         /\ c.req.endpoint = "apps/a2/consents"

\* The script has left the wait loop normally.
LoopLeft == job.pc \in {"finished", "downloading", "crashed", "done"}

\* C29: the wait loop has at most one poll in flight, every poll follows a
\* wait of its own, the loop is left only after at least one poll and only
\* on a reported phase that is neither PENDING nor RUNNING; a report of such
\* a phase leads to the loop being left; and once a request has failed the
\* script takes no further step, so the failed poll is not retried.
C29_JobWaitLoop ==
    /\ [](/\ job.inFlight <= 1
          /\ job.polls <= job.waits
          /\ job.pc = "polling" => (job.inFlight = 1 /\ job.waits = job.polls)
          /\ LoopLeft => (job.polls >= 1 /\ job.status.phase \notin WaitingPhases))
    /\ [][/\ job'.polls # job.polls
               => (job'.polls = job.polls + 1 /\ job.inFlight = 0
                   /\ job.waits = job'.polls)
          /\ job.pc = "failed" => job' = job]_vars
    /\ (job.pc = "test" /\ job.status.phase \notin WaitingPhases) ~> LoopLeft

\* The loop was left after the second poll, which found the job succeeded;
\* the first had found it running.
C29_Witness ==
    /\ job.pc = "finished"
    /\ job.polls = 2
    /\ job.waits = 2
    /\ job.inFlight = 0
    /\ job.status.phase = "SUCCEEDED"

\* C30: after the wait loop the script asks for the first output document
\* only when there is one: whatever phase the job ended in, it does not read
\* the id of an absent outputDocuments[0].
C30_OutputReadOnlyIfPresent ==
    /\ job.error # "TypeError"
    /\ job.pc = "downloading" => job.status.outputDocuments # <<>>

====
